---------------------------- MODULE Spec2Model ----------------------------
(***************************************************************************)
(* A model of the Lumina editor's timeline store, undo history and export  *)
(* controller (src/components/Editor.tsx, first Editor variant, with the   *)
(* Timeline of src/unnamed/part_000 and the VideoPlayer of                 *)
(* src/components/AIAssistant.tsx).                                        *)
(*                                                                         *)
(* Time is an integer number of units of 1/300 s: the frame step 1/60 s is *)
(* 5 units, the playhead epsilon 0.01 s is 3 units, one second is 300.     *)
(* An optional field that is undefined (or absent) holds "none".           *)
(***************************************************************************)
EXTENDS Integers, Sequences, FiniteSets, TLC

\* ------------------------------------------------------------ constants

\* const frameStep = 1 / 60 (handleMoveVideoClip, handleMoveAudioClip)
frameStep == 5
\* const epsilon = 0.01 (split, trim and delete at the playhead)
epsilon == 3
\* const MIN_DURATION = 1 (Timeline drag trims)
MIN_DURATION == 300
\* Math.max(0.1, ...) in applyAIAction's trim_clip
AI_TRIM_FLOOR == 30
\* "Limit history to 50 entries"
HISTORY_LIMIT == 50
\* timelineDuration = Math.max(duration, 10): the ruler's minimum length
RULER_MIN == 3000
\* the default duration of an imported image, and of a failed video probe
IMAGE_DURATION == 1500
\* resolve(... ? metadataDuration : 3): the duration of an audio file whose probe fails
AUDIO_FALLBACK == 900

Second == 60 * frameStep

\* The number of user operations and callbacks a behaviour may hold.
MaxSteps == 3

\* ------------------------------------------------------------- helpers

Max(a, b) == IF a >= b THEN a ELSE b
Min(a, b) == IF a <= b THEN a ELSE b
Abs(a) == IF a >= 0 THEN a ELSE -a

Range(s) == {s[i] : i \in DOMAIN s}
Ids(s) == {s[i].id : i \in DOMAIN s}
ClipEnd(c) == c.start + c.duration

RECURSIVE MaxEnd(_)
\* list.reduce((max, clip) => Math.max(max, clip.start + clip.duration), 0)
MaxEnd(s) == IF s = <<>> THEN 0 ELSE Max(ClipEnd(Head(s)), MaxEnd(Tail(s)))

RECURSIVE SumDurations(_)
\* list.reduce((acc, c) => acc + c.duration, 0)
SumDurations(s) == IF s = <<>> THEN 0 ELSE Head(s).duration + SumDurations(Tail(s))

calculateProjectDuration(videoClips, audioTracks) ==
    Max(Max(MaxEnd(videoClips), MaxEnd(audioTracks)), 0)

\* Math.round(x / frameStep) * frameStep: halves round up
Quantize(x) == ((2 * x + frameStep) \div (2 * frameStep)) * frameStep

RECURSIVE InsertByStart(_, _)
\* c placed after every clip whose start is <= c.start (a stable sort's order)
InsertByStart(c, s) ==
    IF s = <<>> THEN <<c>>
    ELSE IF Head(s).start <= c.start THEN <<Head(s)>> \o InsertByStart(c, Tail(s))
    ELSE <<c>> \o s

RECURSIVE SortByStart(_)
\* [...moved].sort((a, b) => a.start - b.start): Array.prototype.sort is stable
SortByStart(s) ==
    IF s = <<>> THEN <<>>
    ELSE InsertByStart(s[Len(s)], SortByStart(SubSeq(s, 1, Len(s) - 1)))

RECURSIVE RipplePack(_, _)
\* A ripple that packs: every clip starts where the one before it ends.
RipplePack(s, cursor) ==
    IF s = <<>> THEN <<>>
    ELSE <<[Head(s) EXCEPT !.start = cursor]>> \o RipplePack(Tail(s), cursor + Head(s).duration)

\* A ripple that resolves nothing.
RippleNone(s, cursor) == s

RECURSIVE Ripple(_, _)
\* sorted.map(clip => { start = Math.max(clip.start, cursor); cursor = start + duration })
Ripple(s, cursor) ==
    IF s = <<>> THEN <<>>
    ELSE LET start == Max(Head(s).start, cursor)
         IN  <<[Head(s) EXCEPT !.start = start]>> \o Ripple(Tail(s), start + Head(s).duration)

\* The body of handleMoveVideoClip and of handleMoveAudioClip.
MoveClip(list, clipId, newStart) ==
    IF clipId \notin Ids(list) THEN list
    ELSE LET desiredStart == Max(0, Quantize(newStart))
             moved == [i \in DOMAIN list |->
                         IF list[i].id = clipId
                         THEN [list[i] EXCEPT !.start = desiredStart] ELSE list[i]]
         IN  Ripple(SortByStart(moved), 0)

\* splitTime > clip.start + epsilon && splitTime < clipEnd - epsilon
StrictlyInside(c, t) == t > c.start + epsilon /\ t < ClipEnd(c) - epsilon

\* t >= clip.start + epsilon && t < clip.start + clip.duration - epsilon
DeleteHit(c, t) == t >= c.start + epsilon /\ t < ClipEnd(c) - epsilon

SplitLeft(c, t, id) ==
    [c EXCEPT !.id = id, !.duration = t - c.start]

\* A right piece that keeps the original's source offset.
SplitRightSameOffset(c, t, id) ==
    [c EXCEPT !.id = id, !.start = t, !.duration = c.duration - (t - c.start)]

SplitRight(c, t, id) ==
    [c EXCEPT !.id = id, !.start = t, !.duration = c.duration - (t - c.start),
              !.offset = c.offset + (t - c.start)]

VideoSplitLeft(c, t, id) == [SplitLeft(c, t, id) EXCEPT !.transitionOut = "none"]
VideoSplitRight(c, t, id) == [SplitRight(c, t, id) EXCEPT !.transitionIn = "none"]

RECURSIVE SplitVideo(_, _, _)
\* the loop over clips of handleSplitAtPlayhead; ids are drawn from id, id+1, ...
SplitVideo(s, t, id) ==
    IF s = <<>> THEN <<>>
    ELSE IF StrictlyInside(Head(s), t)
         THEN <<VideoSplitLeft(Head(s), t, id), VideoSplitRight(Head(s), t, id + 1)>>
              \o SplitVideo(Tail(s), t, id + 2)
         ELSE <<Head(s)>> \o SplitVideo(Tail(s), t, id)

RECURSIVE SplitAudio(_, _, _)
SplitAudio(s, t, id) ==
    IF s = <<>> THEN <<>>
    ELSE IF StrictlyInside(Head(s), t)
         THEN <<SplitLeft(Head(s), t, id), SplitRight(Head(s), t, id + 1)>>
              \o SplitAudio(Tail(s), t, id + 2)
         ELSE <<Head(s)>> \o SplitAudio(Tail(s), t, id)

Hits(s, t) == {i \in DOMAIN s : StrictlyInside(s[i], t)}

\* A left trim that keeps the source offset.
TrimLeftSameOffset(c, t) == [c EXCEPT !.start = t, !.duration = ClipEnd(c) - t]

TrimLeftClip(c, t) ==
    [c EXCEPT !.start = t, !.duration = ClipEnd(c) - t, !.offset = c.offset + (t - c.start)]

TrimRightClip(c, t) == [c EXCEPT !.duration = t - c.start]

TrimLeftList(s, t) ==
    [i \in DOMAIN s |-> IF StrictlyInside(s[i], t) THEN TrimLeftClip(s[i], t) ELSE s[i]]

TrimRightList(s, t) ==
    [i \in DOMAIN s |-> IF StrictlyInside(s[i], t) THEN TrimRightClip(s[i], t) ELSE s[i]]

RECURSIVE DeleteAndClose(_, _)
\* A delete that pulls the clips after a removed one back by its duration.
DeleteAndClose(s, t) ==
    IF s = <<>> THEN <<>>
    ELSE LET rest == DeleteAndClose(Tail(s), t)
         IN  IF DeleteHit(Head(s), t)
             THEN [i \in DOMAIN rest |->
                      [rest[i] EXCEPT !.start = Max(0, rest[i].start - Head(s).duration)]]
             ELSE <<Head(s)>> \o rest

RECURSIVE DeleteList(_, _)
\* list.filter(clip => !(t >= clip.start + epsilon && t < clip.start + clip.duration - epsilon))
DeleteList(s, t) ==
    IF s = <<>> THEN <<>>
    ELSE IF DeleteHit(Head(s), t) THEN DeleteList(Tail(s), t)
         ELSE <<Head(s)>> \o DeleteList(Tail(s), t)

\* canSplitAtPlayhead (= canTrimLeft = canTrimRight = canDelete)
canSplitAtPlayhead(vs, as, t) == Hits(vs, t) # {} \/ Hits(as, t) # {}

RECURSIVE Recalc(_, _)
\* recalculateTimeline / the restore effect: clips laid end to end from 0
Recalc(s, currentStart) ==
    IF s = <<>> THEN <<>>
    ELSE <<[Head(s) EXCEPT !.start = currentStart]>>
         \o Recalc(Tail(s), currentStart + Head(s).duration)

recalculateTimeline(list) == Recalc(list, 0)

\* Two clips overlap: their intervals [start, start+duration) intersect.
Overlaps(a, b) == a.start < ClipEnd(b) /\ b.start < ClipEnd(a)

NoOverlap(s) == \A i, j \in DOMAIN s : i < j => ~Overlaps(s[i], s[j])

\* ------------------------------------------------- effects of a render

\* Math.abs(...) > 0.01 in the duration effect
DURATION_TOLERANCE == 3

\* A recompute that updates the duration and leaves the playhead where it is.
DurationOnly(vs, cl, au) == [vs EXCEPT !.duration = calculateProjectDuration(cl, au)]

\* The effect on [clips, audioClips]: the duration is recomputed and the
\* playhead clamped to it; a change of at most 0.01 s in both is dropped.
DurationEffect(vs, cl, au) ==
    LET combinedDuration == calculateProjectDuration(cl, au)
        clampedCurrentTime == Min(vs.currentTime, combinedDuration)
        durationChanged == Abs(vs.duration - combinedDuration) > DURATION_TOLERANCE
        timeChanged == Abs(vs.currentTime - clampedCurrentTime) > DURATION_TOLERANCE
    IN  IF ~durationChanged /\ ~timeChanged THEN vs
        ELSE [vs EXCEPT !.duration = combinedDuration, !.currentTime = clampedCurrentTime]

\* JSON.parse(JSON.stringify(list)): every field of every clip copied by value
\* (an undefined field is dropped, which reads back as undefined: "none").
JsonClone(list) == [i \in DOMAIN list |-> [f \in DOMAIN list[i] |-> list[i][f]]]

Snapshot(cl, au, su) ==
    [clips |-> JsonClone(cl), audioClips |-> JsonClone(au), subtitles |-> JsonClone(su)]

\* A history effect that keeps every snapshot.
HistoryEffectUnbounded(h, hi, flag, loading, cl, au, su) ==
    IF loading \/ flag
    THEN [history |-> h, historyIndex |-> hi, isUndoRedoAction |-> FALSE]
    ELSE IF cl = <<>> /\ su = <<>>
    THEN [history |-> h, historyIndex |-> hi, isUndoRedoAction |-> flag]
    ELSE [history |-> Append(SubSeq(h, 1, hi + 1), Snapshot(cl, au, su)),
          historyIndex |-> hi + 1,
          isUndoRedoAction |-> flag]

\* The history-tracking effect on [clips, audioClips, subtitles, isLoadingMedia],
\* run with the render's history h, historyIndex hi and the ref's value flag.
HistoryEffect(h, hi, flag, loading, cl, au, su) ==
    IF loading \/ flag
    THEN [history |-> h, historyIndex |-> hi, isUndoRedoAction |-> FALSE]
    ELSE IF cl = <<>> /\ su = <<>>
    THEN [history |-> h, historyIndex |-> hi, isUndoRedoAction |-> flag]
    ELSE LET trimmed == SubSeq(h, 1, hi + 1)
             limited == IF Len(trimmed) >= HISTORY_LIMIT THEN Tail(trimmed) ELSE trimmed
         IN  [history |-> Append(limited, Snapshot(cl, au, su)),
              historyIndex |-> Min(hi + 1, HISTORY_LIMIT - 1),
              isUndoRedoAction |-> flag]

\* ------------------------------------------------------ the AI actions

NoAction == [action |-> "unknown", targetClipId |-> 0, startOffset |-> 0,
             endOffset |-> 0, timestamp |-> -1, ranges |-> <<>>, value |-> ""]

FilterAction(val) == [NoAction EXCEPT !.action = "apply_filter", !.value = val]

SplitAction(ts) == [NoAction EXCEPT !.action = "split_clip", !.timestamp = ts]

HighlightsAction(ranges) ==
    [NoAction EXCEPT !.action = "keep_only_highlights", !.ranges = ranges]

TrimAction(id, s, e) ==
    [NoAction EXCEPT !.action = "trim_clip", !.targetClipId = id,
                     !.startOffset = s, !.endOffset = e]

RemoveAction(id) == [NoAction EXCEPT !.action = "remove_clip", !.targetClipId = id]

\* applyAIAction's trim_clip on one clip
AITrimClip(c, sOffset, eOffset) ==
    [c EXCEPT !.duration = Max(AI_TRIM_FLOOR, c.duration - sOffset - eOffset),
              !.offset = c.offset + sOffset]

\* updatedClips.findIndex(c => ts >= c.start && ts < c.start + c.duration), 0 if none
FindIndexAt(list, ts) ==
    LET hit == {i \in DOMAIN list : ts >= list[i].start /\ ts < ClipEnd(list[i])}
    IN  IF hit = {} THEN 0 ELSE CHOOSE i \in hit : \A j \in hit : i <= j

RECURSIVE HighlightClips(_, _, _, _)
\* keep_only_highlights: one clip per range, laid end to end from currentStart;
\* the transition defaults to 'fade' and is given to every clip but the first
HighlightClips(ranges, id, currentStart, first) ==
    IF ranges = <<>> THEN <<>>
    ELSE LET range == Head(ranges)
             clipDuration == range.end - range.start
         IN  <<[id |-> id, type |-> "video", start |-> currentStart,
                duration |-> clipDuration, offset |-> range.start, isMuted |-> FALSE,
                filter |-> "", transitionIn |-> IF first THEN "none" ELSE "fade",
                transitionOut |-> "none"]>>
             \o HighlightClips(Tail(ranges), id + 1, currentStart + clipDuration, FALSE)

\* applyAIAction: [newState, updatedClips] and the next unused id
applyAIAction(a, state, currentClips, id) ==
    CASE a.action = "seek_to" /\ a.timestamp >= 0 ->
           [newState |-> [state EXCEPT !.currentTime = a.timestamp],
            updatedClips |-> currentClips, id |-> id]
      [] a.action = "apply_filter" /\ a.value # "" ->
           LET activeId == FindIndexAt(currentClips, state.currentTime)
           IN  [newState |-> [state EXCEPT !.filter = a.value],
                updatedClips |-> [i \in DOMAIN currentClips |->
                                    IF i = activeId
                                    THEN [currentClips[i] EXCEPT !.filter = a.value]
                                    ELSE currentClips[i]],
                id |-> id]
      [] a.action = "remove_clip" /\ a.targetClipId # 0 /\ Len(currentClips) > 1 ->
           [newState |-> state,
            updatedClips |-> recalculateTimeline(
                SelectSeq(currentClips, LAMBDA c : c.id # a.targetClipId)),
            id |-> id]
      [] a.action = "trim_clip" /\ a.targetClipId # 0 ->
           [newState |-> state,
            updatedClips |-> recalculateTimeline(
                [i \in DOMAIN currentClips |->
                    IF currentClips[i].id = a.targetClipId
                    THEN AITrimClip(currentClips[i], a.startOffset, a.endOffset)
                    ELSE currentClips[i]]),
            id |-> id]
      [] a.action = "split_clip" /\ a.timestamp >= 0
            /\ FindIndexAt(currentClips, a.timestamp) # 0 ->
           LET idx == FindIndexAt(currentClips, a.timestamp)
               c == currentClips[idx]
               rel == a.timestamp - c.start
               c1 == [c EXCEPT !.id = id, !.duration = rel]
               c2 == [c EXCEPT !.id = id + 1, !.start = a.timestamp,
                               !.duration = c.duration - rel, !.offset = c.offset + rel]
           IN  [newState |-> [state EXCEPT !.currentTime = a.timestamp],
                updatedClips |-> recalculateTimeline(
                    SubSeq(currentClips, 1, idx - 1) \o <<c1, c2>>
                    \o SubSeq(currentClips, idx + 1, Len(currentClips))),
                id |-> id + 2]
      [] a.action = "keep_only_highlights" /\ a.ranges # <<>>
            /\ \E i \in DOMAIN currentClips : currentClips[i].type = "video" ->
           LET highlightClips == HighlightClips(a.ranges, id, 0, TRUE)
           IN  [newState |-> [state EXCEPT !.duration = SumDurations(highlightClips),
                                           !.currentTime = 0],
                updatedClips |-> highlightClips,
                id |-> id + Len(a.ranges)]
      [] OTHER -> [newState |-> state, updatedClips |-> currentClips, id |-> id]

RECURSIVE ApplyActions(_, _, _, _)
\* for (const action of response.actions) { res = await applyAIAction(...) }
ApplyActions(actions, state, currentClips, id) ==
    IF actions = <<>> THEN [newState |-> state, updatedClips |-> currentClips, id |-> id]
    ELSE LET res == applyAIAction(Head(actions), state, currentClips, id)
         IN  ApplyActions(Tail(actions), res.newState, res.updatedClips, res.id)

\* ------------------------------------------------------------ the state

VARIABLES
    clips,             \* useState<TimelineClip[]>
    audioClips,        \* useState<AudioClip[]>
    subtitles,         \* useState<Subtitle[]>
    videoState,        \* useState<VideoState>: currentTime, duration, isPlaying,
                       \* filter, brightness, contrast, saturation, fadeIn, fadeOut
    history,           \* useState<HistoryState[]>
    historyIndex,      \* useState(-1), 0-based
    isUndoRedoAction,  \* useRef(false)
    isLoadingMedia,    \* useState
    isProcessingAI,    \* useState
    pendingImport,     \* the handleFileUpload call in flight: what its closure holds
    pendingAI,         \* the handleAICommand calls in flight: what each closure holds
    nextId,            \* the next value generateId() returns
    isExporting,       \* useState
    exportProgress,    \* useState
    recorder,          \* mediaRecorderRef: "none", "recording" or "inactive"
    recordedChunks,    \* recordedChunksRef: the number of chunks held
    currentTimeRef,    \* useRef: the clock's time between state updates
    syncDue,           \* the playback effect has yet to run for a time a frame callback published
    ticking,           \* a frame callback is scheduled (requestRef)
    finalizeTimer,     \* the number of setTimeout(..., 500) callbacks of handleFinalizeExport pending
    deliveries,        \* the artifacts handed to the download link, in order
    stops,             \* recorder.stop() calls since the last handleExportStart
    ends,              \* ticks that found nextTime >= duration since the last handleExportStart
    log                \* the operations applied so far, each with the state it met

timelineVars == <<clips, audioClips, subtitles>>
historyVars == <<history, historyIndex, isUndoRedoAction>>
asyncVars == <<isLoadingMedia, isProcessingAI, pendingImport, pendingAI>>
exportVars == <<isExporting, exportProgress, recorder, recordedChunks, ticking,
                finalizeTimer, deliveries, stops, ends>>
vars == <<clips, audioClips, subtitles, videoState, history, historyIndex,
          isUndoRedoAction, isLoadingMedia, isProcessingAI, pendingImport, pendingAI,
          nextId, isExporting, exportProgress, recorder, recordedChunks, currentTimeRef,
          syncDue, ticking, finalizeTimer, deliveries, stops, ends, log>>

None == [kind |-> "none"]

\* A clip without a filter of its own (filter undefined) has filter "".
VideoClip(id, type, start, duration, tIn, tOut) ==
    [id |-> id, type |-> type, start |-> start, duration |-> duration, offset |-> 0,
     isMuted |-> FALSE, filter |-> "", transitionIn |-> tIn, transitionOut |-> tOut]

AudioClip(id, start, duration) ==
    [id |-> id, start |-> start, duration |-> duration, offset |-> 0, isMuted |-> FALSE]

Cue(id, start, duration) == [id |-> id, start |-> start, duration |-> duration]

\* A saved playback state: paused at time t of a timeline d long, no global
\* filter, the adjustments at 100 % and both global fades off.
PlaybackState(t, d) ==
    [currentTime |-> t, duration |-> d, isPlaying |-> FALSE, filter |-> "none",
     brightness |-> 100, contrast |-> 100, saturation |-> 100, fadeIn |-> 0, fadeOut |-> 0]

\* The saved projects an editor is opened on: the clips as saved (the restore
\* effect lays them end to end), the audio clips, the cues and the playhead.
Projects ==
    { [clips |-> <<>>, audioClips |-> <<>>, subtitles |-> <<>>, currentTime |-> 0],
      [clips |-> <<VideoClip(1, "video", 0, 2 * Second, "none", "none")>>,
       audioClips |-> <<>>, subtitles |-> <<>>, currentTime |-> Second],
      [clips |-> <<VideoClip(1, "video", 0, 2 * Second, "fade", "fade"),
                   VideoClip(2, "video", 3 * Second, 2 * Second, "none", "none")>>,
       audioClips |-> <<AudioClip(3, 2 * Second - 2, 2 * Second)>>,
       subtitles |-> <<Cue(4, 0, Second)>>, currentTime |-> 0] }

\* The state once the restore effect has run on project p (every file found):
\* the clips laid end to end, the duration their sum, and the first snapshot
\* recorded by the history effect when isLoadingMedia turns false.
Restored(p) ==
    LET recalculated == recalculateTimeline(p.clips)
        vs0 == PlaybackState(p.currentTime,
                             IF p.clips = <<>> THEN 0 ELSE SumDurations(recalculated))
        h == HistoryEffect(<<>>, -1, FALSE, FALSE, recalculated, p.audioClips, p.subtitles)
    IN  [clips |-> recalculated, audioClips |-> p.audioClips, subtitles |-> p.subtitles,
         videoState |-> DurationEffect(vs0, recalculated, p.audioClips),
         history |-> h.history, historyIndex |-> h.historyIndex]

FirstFreeId(p) ==
    1 + Cardinality(Ids(p.clips) \cup Ids(p.audioClips) \cup Ids(p.subtitles))

Init ==
    \E p \in Projects :
        LET r == Restored(p) IN
        /\ clips = r.clips
        /\ audioClips = r.audioClips
        /\ subtitles = r.subtitles
        /\ videoState = r.videoState
        /\ history = r.history
        /\ historyIndex = r.historyIndex
        /\ isUndoRedoAction = FALSE
        /\ isLoadingMedia = FALSE
        /\ isProcessingAI = FALSE
        /\ pendingImport = None
        /\ pendingAI = <<>>
        /\ nextId = FirstFreeId(p)
        /\ isExporting = FALSE
        /\ exportProgress = 0
        /\ recorder = "none"
        /\ recordedChunks = 0
        /\ currentTimeRef = r.videoState.currentTime
        /\ syncDue = FALSE
        /\ ticking = FALSE
        /\ finalizeTimer = 0
        /\ deliveries = <<>>
        /\ stops = 0
        /\ ends = 0
        /\ log = <<>>

\* ---------------------------------------------------- the inputs drawn

\* Playhead positions a click on the ruler asks for.
SeekTimes == {Second \div 2, 2 * Second + 2, 3 * Second}

\* Start positions a drag asks for (302 is off the frame grid).
MoveTargets == {0, Second + 2, 2 * Second, 5 * Second}

\* Durations the metadata probe of an imported file reports.
ProbedDurations == {2 * Second}

\* What the AI command interpreter answers for the clips it was shown.
AIResponses(shown) ==
    {<<>>} \cup {<<TrimAction(id, 0, 2 * Second)>> : id \in Ids(shown)}

\* ------------------------------------------------------- the operations

Entry(op, id, arg) ==
    [op |-> op, id |-> id, arg |-> arg, clips |-> clips, audioClips |-> audioClips,
     subtitles |-> subtitles, time |-> videoState.currentTime]

Step(op, id, arg) ==
    /\ Len(log) < MaxSteps
    /\ log' = Append(log, Entry(op, id, arg))

\* The render after a handler left the timeline as cl, au and the playback
\* state as vs, with historyIndex hi, the ref flag and isLoadingMedia loading:
\* the duration effect, the history effect and the clock ref's sync.
Render(cl, au, vs, hi, flag, loading) ==
    LET h == HistoryEffect(history, hi, flag, loading, cl, au, subtitles)
        vs2 == DurationEffect(vs, cl, au)
    IN  /\ clips' = cl
        /\ audioClips' = au
        /\ subtitles' = subtitles
        /\ videoState' = vs2
        /\ currentTimeRef' = IF vs2.currentTime # videoState.currentTime
                                \/ vs2.isPlaying # videoState.isPlaying
                                \/ syncDue
                             THEN vs2.currentTime ELSE currentTimeRef
        /\ syncDue' = FALSE
        /\ history' = h.history
        /\ historyIndex' = h.historyIndex
        /\ isUndoRedoAction' = h.isUndoRedoAction

\* An edit by a handler that touches the timeline only.
Edit(cl, au) == Render(cl, au, videoState, historyIndex, isUndoRedoAction, isLoadingMedia)

\* A ruler as long as the clips, with no minimum.
RulerWithoutFloor == calculateProjectDuration(clips, audioClips)

TimelineDuration == Max(calculateProjectDuration(clips, audioClips), RULER_MIN)

\* A seek handler that also pauses: the alternative the play-state clause of
\* the seek contract excludes.
SeekPausing(t) ==
    /\ t <= TimelineDuration
    /\ Step("seek", 0, t)
    /\ videoState' = IF isExporting THEN videoState
                     ELSE [videoState EXCEPT !.currentTime = t, !.isPlaying = FALSE]
    /\ currentTimeRef' = IF ~isExporting /\ (t # videoState.currentTime \/ syncDue)
                         THEN t ELSE currentTimeRef
    /\ syncDue' = (isExporting /\ syncDue)
    /\ UNCHANGED <<timelineVars, historyVars, asyncVars, exportVars, nextId>>

\* onSeek={(t) => handleUpdateState({ currentTime: t })}; handleUpdateState
\* returns before setVideoState while an export is running.
Seek(t) ==
    /\ t <= TimelineDuration
    /\ Step("seek", 0, t)
    /\ videoState' = IF isExporting THEN videoState
                     ELSE [videoState EXCEPT !.currentTime = t]
    /\ currentTimeRef' = IF ~isExporting /\ (t # videoState.currentTime \/ syncDue)
                         THEN t ELSE currentTimeRef
    /\ syncDue' = (isExporting /\ syncDue)
    /\ UNCHANGED <<timelineVars, historyVars, asyncVars, exportVars, nextId>>

\* A video move that ripples the audio track against the moved clip too.
MoveVideoAcrossTracks(id, newStart) ==
    /\ \E i \in DOMAIN clips :
          clips[i].id = id /\ newStart <= Max(0, TimelineDuration - clips[i].duration)
    /\ Step("move", id, newStart)
    /\ Edit(MoveClip(clips, id, newStart),
            Ripple(SortByStart(audioClips), Max(0, Quantize(newStart)) + Second))
    /\ UNCHANGED <<asyncVars, exportVars, nextId>>

\* handleMoveVideoClip, called by the Timeline's drag with a start in [0, maxStart]
MoveVideo(id, newStart) ==
    /\ \E i \in DOMAIN clips :
          clips[i].id = id /\ newStart <= Max(0, TimelineDuration - clips[i].duration)
    /\ Step("move", id, newStart)
    /\ Edit(MoveClip(clips, id, newStart), audioClips)
    /\ UNCHANGED <<asyncVars, exportVars, nextId>>

\* handleMoveAudioClip
MoveAudio(id, newStart) ==
    /\ \E i \in DOMAIN audioClips :
          audioClips[i].id = id
          /\ newStart <= Max(0, TimelineDuration - audioClips[i].duration)
    /\ Step("moveAudio", id, newStart)
    /\ Edit(clips, MoveClip(audioClips, id, newStart))
    /\ UNCHANGED <<asyncVars, exportVars, nextId>>

\* handleSplitAtPlayhead, behind the Split button (disabled unless canSplitAtPlayhead)
Split ==
    LET t == videoState.currentTime IN
    /\ ~isExporting
    /\ canSplitAtPlayhead(clips, audioClips, t)
    /\ Step("split", 0, t)
    /\ Edit(SplitVideo(clips, t, nextId),
            SplitAudio(audioClips, t, nextId + 2 * Cardinality(Hits(clips, t))))
    /\ nextId' = nextId + 2 * (Cardinality(Hits(clips, t)) + Cardinality(Hits(audioClips, t)))
    /\ UNCHANGED <<asyncVars, exportVars>>

\* handleTrimLeftAtPlayhead
TrimLeft ==
    LET t == videoState.currentTime IN
    /\ ~isExporting
    /\ canSplitAtPlayhead(clips, audioClips, t)
    /\ Step("trimLeft", 0, t)
    /\ Edit(TrimLeftList(clips, t), TrimLeftList(audioClips, t))
    /\ UNCHANGED <<asyncVars, exportVars, nextId>>

\* handleTrimRightAtPlayhead
TrimRight ==
    LET t == videoState.currentTime IN
    /\ ~isExporting
    /\ canSplitAtPlayhead(clips, audioClips, t)
    /\ Step("trimRight", 0, t)
    /\ Edit(TrimRightList(clips, t), TrimRightList(audioClips, t))
    /\ UNCHANGED <<asyncVars, exportVars, nextId>>

\* handleDeleteAtPlayhead
DeleteAtPlayhead ==
    LET t == videoState.currentTime IN
    /\ ~isExporting
    /\ canSplitAtPlayhead(clips, audioClips, t)
    /\ Len(DeleteList(clips, t)) + Len(DeleteList(audioClips, t))
          < Len(clips) + Len(audioClips)
    /\ Step("delete", 0, t)
    /\ Edit(DeleteList(clips, t), DeleteList(audioClips, t))
    /\ UNCHANGED <<asyncVars, exportVars, nextId>>

ToggleMuteIn(list, id) ==
    [i \in DOMAIN list |->
        IF list[i].id = id THEN [list[i] EXCEPT !.isMuted = ~list[i].isMuted] ELSE list[i]]

\* handleToggleMuteVideoClip
ToggleMuteVideo(id) ==
    /\ id \in Ids(clips)
    /\ Step("mute", id, 0)
    /\ Edit(ToggleMuteIn(clips, id), audioClips)
    /\ UNCHANGED <<asyncVars, exportVars, nextId>>

\* handleToggleMuteAudioClip
ToggleMuteAudio(id) ==
    /\ id \in Ids(audioClips)
    /\ Step("muteAudio", id, 0)
    /\ Edit(clips, ToggleMuteIn(audioClips, id))
    /\ UNCHANGED <<asyncVars, exportVars, nextId>>

DropPresetIn(list, id, type, value) ==
    [i \in DOMAIN list |->
        IF list[i].id # id THEN list[i]
        ELSE IF type = "filter" THEN [list[i] EXCEPT !.filter = value]
        ELSE IF type = "transition" THEN [list[i] EXCEPT !.transitionIn = value]
        ELSE list[i]]

\* handleDropPreset: a preset dragged onto a clip (presets drag unless exporting)
DropPreset(id, type, value) ==
    /\ ~isExporting
    /\ id \in Ids(clips)
    /\ Step("preset", id, 0)
    /\ Edit(DropPresetIn(clips, id, type, value), audioClips)
    /\ UNCHANGED <<asyncVars, exportVars, nextId>>

\* handleUndo, behind the Undo button (disabled when historyIndex <= 0 or exporting)
Undo ==
    /\ ~isExporting
    /\ historyIndex > 0
    /\ Step("undo", 0, 0)
    /\ LET prevState == history[historyIndex]      \* history[historyIndex - 1], 0-based
           totalDur == calculateProjectDuration(prevState.clips, prevState.audioClips)
           h == HistoryEffect(history, historyIndex - 1, TRUE, isLoadingMedia,
                              prevState.clips, prevState.audioClips, prevState.subtitles)
           vs2 == DurationEffect([videoState EXCEPT !.duration = totalDur],
                                 prevState.clips, prevState.audioClips)
       IN  /\ clips' = prevState.clips
           /\ audioClips' = prevState.audioClips
           /\ subtitles' = prevState.subtitles
           /\ videoState' = vs2
           /\ currentTimeRef' = IF vs2.currentTime # videoState.currentTime \/ syncDue
                                THEN vs2.currentTime ELSE currentTimeRef
           /\ syncDue' = FALSE
           /\ history' = h.history
           /\ historyIndex' = h.historyIndex
           /\ isUndoRedoAction' = h.isUndoRedoAction
    /\ UNCHANGED <<asyncVars, exportVars, nextId>>

\* handleRedo, behind the Redo button
Redo ==
    /\ ~isExporting
    /\ historyIndex < Len(history) - 1
    /\ Step("redo", 0, 0)
    /\ LET nextState == history[historyIndex + 2]  \* history[historyIndex + 1], 0-based
           totalDur == calculateProjectDuration(nextState.clips, nextState.audioClips)
           h == HistoryEffect(history, historyIndex + 1, TRUE, isLoadingMedia,
                              nextState.clips, nextState.audioClips, nextState.subtitles)
           vs2 == DurationEffect([videoState EXCEPT !.duration = totalDur],
                                 nextState.clips, nextState.audioClips)
       IN  /\ clips' = nextState.clips
           /\ audioClips' = nextState.audioClips
           /\ subtitles' = nextState.subtitles
           /\ videoState' = vs2
           /\ currentTimeRef' = IF vs2.currentTime # videoState.currentTime \/ syncDue
                                THEN vs2.currentTime ELSE currentTimeRef
           /\ syncDue' = FALSE
           /\ history' = h.history
           /\ historyIndex' = h.historyIndex
           /\ isUndoRedoAction' = h.isUndoRedoAction
    /\ UNCHANGED <<asyncVars, exportVars, nextId>>

\* handleFileUpload up to its first await: one file chosen, of the given kind
\* ("video", "image" or "audio"), whose probe will report the given duration.
ImportStart(kind, duration) ==
    /\ ~isLoadingMedia
    /\ ~isExporting
    /\ pendingImport = None
    /\ Step("importStart", nextId, duration)
    /\ pendingImport' = [kind |-> kind, id |-> nextId, duration |-> duration,
                         clips |-> clips, audioClips |-> audioClips,
                         videoState |-> videoState]
    /\ nextId' = nextId + 1
    /\ isLoadingMedia' = TRUE
    /\ isUndoRedoAction' = FALSE      \* the history effect, run on isLoadingMedia
    /\ UNCHANGED <<timelineVars, videoState, currentTimeRef, syncDue, history, historyIndex,
                   isProcessingAI, pendingAI, exportVars>>

\* The outcome of a metadata probe whose element fires error instead of
\* loadedmetadata.
ProbeError == -1

\* video.onerror = () => resolve(5)
VIDEO_FALLBACK == 1500

\* The clip handleFileUpload builds from the file and its probed duration.
ImportedVideoClip(p, updatedClips) ==
    [id |-> p.id, type |-> IF p.kind = "image" THEN "image" ELSE "video",
     start |-> SumDurations(updatedClips),
     duration |-> IF p.kind = "image" THEN IMAGE_DURATION
                  ELSE IF p.duration = ProbeError THEN VIDEO_FALLBACK ELSE p.duration,
     offset |-> 0, isMuted |-> FALSE, filter |-> "",
     transitionIn |-> "none", transitionOut |-> "none"]

\* an audio probe that fails or is not a finite positive number is replaced by 3 s
ImportedAudioClip(p) ==
    [id |-> p.id, start |-> p.videoState.currentTime,
     duration |-> IF p.duration > 0 THEN p.duration ELSE AUDIO_FALLBACK,
     offset |-> 0, isMuted |-> FALSE]

\* An import that waits for a duration: a probe that fails never lets it go on.
ImportFinishBlocking(uploaded) ==
    /\ pendingImport # None
    /\ pendingImport.duration # ProbeError
    /\ Step("importFinish", pendingImport.id, IF uploaded THEN 1 ELSE 0)
    /\ LET p == pendingImport
           updatedClips ==
               IF uploaded /\ p.kind # "audio"
               THEN Append(p.clips, ImportedVideoClip(p, p.clips)) ELSE p.clips
           updatedAudioClips ==
               IF uploaded /\ p.kind = "audio"
               THEN Append(p.audioClips, ImportedAudioClip(p)) ELSE p.audioClips
           totalDuration == calculateProjectDuration(updatedClips, updatedAudioClips)
           firstDraft == p.clips = <<>> /\ updatedClips # <<>>
       IN  /\ Render(updatedClips, updatedAudioClips,
                     [videoState EXCEPT !.duration = totalDuration],
                     historyIndex, isUndoRedoAction, FALSE)
           /\ pendingAI' = IF firstDraft
                           THEN Append(pendingAI, [clips |-> updatedClips,
                                                   videoState |-> p.videoState])
                           ELSE pendingAI
           /\ isProcessingAI' = (isProcessingAI \/ firstDraft)
    /\ isLoadingMedia' = FALSE
    /\ pendingImport' = None
    /\ UNCHANGED <<exportVars, nextId>>

\* handleFileUpload from the upload's outcome on: the clip is appended to the
\* lists the call started with, and a first import starts an AI command. The
\* log keeps whether the upload succeeded (1) or failed (0).
ImportFinish(uploaded) ==
    /\ pendingImport # None
    /\ Step("importFinish", pendingImport.id, IF uploaded THEN 1 ELSE 0)
    /\ LET p == pendingImport
           updatedClips ==
               IF uploaded /\ p.kind # "audio"
               THEN Append(p.clips, ImportedVideoClip(p, p.clips)) ELSE p.clips
           updatedAudioClips ==
               IF uploaded /\ p.kind = "audio"
               THEN Append(p.audioClips, ImportedAudioClip(p)) ELSE p.audioClips
           totalDuration == calculateProjectDuration(updatedClips, updatedAudioClips)
           firstDraft == p.clips = <<>> /\ updatedClips # <<>>
       IN  /\ Render(updatedClips, updatedAudioClips,
                     [videoState EXCEPT !.duration = totalDuration],
                     historyIndex, isUndoRedoAction, FALSE)
           /\ pendingAI' = IF firstDraft
                           THEN Append(pendingAI, [clips |-> updatedClips,
                                                   videoState |-> p.videoState])
                           ELSE pendingAI
           /\ isProcessingAI' = (isProcessingAI \/ firstDraft)
    /\ isLoadingMedia' = FALSE
    /\ pendingImport' = None
    /\ UNCHANGED <<exportVars, nextId>>

\* handleAICommand up to its await, sent from the assistant panel
AIStart ==
    /\ ~isProcessingAI
    /\ Step("aiStart", 0, 0)
    /\ pendingAI' = Append(pendingAI, [clips |-> clips, videoState |-> videoState])
    /\ isProcessingAI' = TRUE
    /\ UNCHANGED <<timelineVars, videoState, currentTimeRef, syncDue, historyVars, isLoadingMedia,
                   pendingImport, exportVars, nextId>>

RemoveAt(s, i) == SubSeq(s, 1, i - 1) \o SubSeq(s, i + 1, Len(s))

\* handleAICommand from the interpreter's answer on: the actions are applied to
\* the clips and the playback state the call started with.
AIFinish(i, actions) ==
    /\ i \in DOMAIN pendingAI
    /\ Step("aiFinish", IF actions = <<>> THEN 0 ELSE actions[1].targetClipId, 0)
    /\ LET res == ApplyActions(actions, pendingAI[i].videoState, pendingAI[i].clips, nextId)
           currentState == [res.newState EXCEPT !.duration = SumDurations(res.updatedClips)]
       IN  /\ Render(res.updatedClips, audioClips, currentState,
                     historyIndex, isUndoRedoAction, isLoadingMedia)
           /\ nextId' = res.id
    /\ pendingAI' = RemoveAt(pendingAI, i)
    /\ isProcessingAI' = FALSE
    /\ UNCHANGED <<isLoadingMedia, pendingImport, exportVars>>

\* ------------------------------------------------- the editor's behaviour

Next ==
    \/ \E t \in SeekTimes : Seek(t)
    \/ \E id \in Ids(clips), s \in MoveTargets : MoveVideo(id, s)
    \/ \E id \in Ids(audioClips), s \in MoveTargets : MoveAudio(id, s)
    \/ Split
    \/ TrimLeft
    \/ TrimRight
    \/ DeleteAtPlayhead
    \/ \E id \in Ids(clips) : ToggleMuteVideo(id)
    \/ \E id \in Ids(audioClips) : ToggleMuteAudio(id)
    \/ \E id \in Ids(clips) : DropPreset(id, "filter", "sepia")
    \/ \E id \in Ids(clips) : DropPreset(id, "transition", "fade")
    \/ Undo
    \/ Redo
    \/ \E kind \in {"video", "audio"}, d \in ProbedDurations : ImportStart(kind, d)
    \/ \E uploaded \in BOOLEAN : ImportFinish(uploaded)
    \/ AIStart
    \/ \E i \in DOMAIN pendingAI : \E a \in AIResponses(pendingAI[i].clips) : AIFinish(i, a)

Spec == Init /\ [][Next]_vars

\* ------------------------------------- imports and AI edits at large

\* What the metadata probe of a chosen file reports: a length, or a reading
\* that is not a finite positive number, for which 0 stands.
MediaProbes == {2 * Second, 0}

\* Timestamps of an AI split: a clip's start, the inside of a clip, and a
\* time within epsilon of a clip's start.
AISplitTimes == {0, Second, 2 * Second + 2}

\* Highlight ranges as the interpreter may return them: the second one is empty.
SomeHighlights == <<[start |-> 0, end |-> Second], [start |-> Second, end |-> Second]>>

MediaAIResponses ==
    {<<>>} \cup {<<SplitAction(ts)>> : ts \in AISplitTimes}
           \cup {<<HighlightsAction(SomeHighlights)>>}

NextMedia ==
    \/ \E t \in SeekTimes : Seek(t)
    \/ \E id \in Ids(clips), s \in MoveTargets : MoveVideo(id, s)
    \/ Split
    \/ TrimLeft
    \/ \E kind \in {"video", "image", "audio"}, d \in MediaProbes : ImportStart(kind, d)
    \/ \E uploaded \in BOOLEAN : ImportFinish(uploaded)
    \/ AIStart
    \/ \E i \in DOMAIN pendingAI : \E a \in MediaAIResponses : AIFinish(i, a)

SpecMedia == Init /\ [][NextMedia]_vars

\* ------------------------------------------- playback and the export

\* What a frame callback finds elapsed since the last one, times playbackRate.
TickDeltas == {Second}

\* selectedExportFormat
ExportFormats == {"webm", "mp4"}

\* A resolver that takes the match with the earliest start.
ActiveClipEarliest(list, t) ==
    LET hit == {i \in DOMAIN list : t >= list[i].start /\ t < ClipEnd(list[i])}
    IN  IF hit = {} THEN None
        ELSE list[CHOOSE i \in hit : \A j \in hit :
                     list[i].start < list[j].start \/ (list[j].start = list[i].start /\ i <= j)]

\* activeClip: the clip under the playhead, the latest start first
ActiveClipAt(list, t) ==
    LET hit == {i \in DOMAIN list : t >= list[i].start /\ t < ClipEnd(list[i])}
    IN  IF hit = {} THEN None
        ELSE list[CHOOSE i \in hit : \A j \in hit :
                     list[j].start < list[i].start \/ (list[j].start = list[i].start /\ i <= j)]

\* playerRef.current?.getStream(): the mounted player's <video>, if any
HasStream(list, t) == ActiveClipAt(list, t) # None /\ ActiveClipAt(list, t).type = "video"

\* The controller's state: Idle -> Rendering -> Finalizing -> Idle
Phase == IF ~isExporting THEN "Idle" ELSE IF finalizeTimer > 0 THEN "Finalizing" ELSE "Rendering"

\* handleTogglePlay, behind the Play button
TogglePlay ==
    /\ ~isExporting
    /\ clips # <<>> \/ audioClips # <<>>
    /\ Step("togglePlay", 0, 0)
    /\ videoState' = [videoState EXCEPT !.isPlaying = ~videoState.isPlaying]
    /\ currentTimeRef' = videoState.currentTime
    /\ syncDue' = FALSE
    /\ ticking' = ~videoState.isPlaying
    /\ UNCHANGED <<timelineVars, historyVars, asyncVars, nextId, isExporting, exportProgress,
                   recorder, recordedChunks, finalizeTimer, deliveries, stops, ends>>

\* handleSelectAudioClip: a click on an audio clip plays from its start
SelectAudioClip(id) ==
    /\ \E i \in DOMAIN audioClips :
          /\ audioClips[i].id = id
          /\ videoState' = [videoState EXCEPT !.currentTime = audioClips[i].start,
                                              !.isPlaying = TRUE]
          /\ currentTimeRef' = audioClips[i].start
          /\ syncDue' = FALSE
    /\ Step("selectAudio", id, 0)
    /\ ticking' = TRUE
    /\ UNCHANGED <<timelineVars, historyVars, asyncVars, nextId, isExporting, exportProgress,
                   recorder, recordedChunks, finalizeTimer, deliveries, stops, ends>>

\* handleExportStart, behind the export modal's Start button
\* (the modal opens only with clips on the track and no export running)
ExportStart ==
    /\ ~isExporting
    /\ clips # <<>>
    /\ Step("exportStart", 0, 0)
    /\ isExporting' = TRUE
    /\ exportProgress' = 0
    /\ recordedChunks' = 0
    /\ videoState' = [videoState EXCEPT !.currentTime = 0, !.isPlaying = TRUE]
    /\ recorder' = IF HasStream(clips, videoState.currentTime) THEN "recording" ELSE recorder
    /\ currentTimeRef' = 0
    /\ syncDue' = FALSE
    /\ ticking' = TRUE
    /\ stops' = 0
    /\ ends' = 0
    /\ UNCHANGED <<timelineVars, historyVars, asyncVars, nextId, finalizeTimer, deliveries>>

\* animate: one frame callback. publish: more than 50 ms passed since the last
\* state update. The end of the timeline stops the clock and, in an export,
\* calls handleFinalizeExport, which stops a recorder that is not inactive and
\* sets the 500 ms timer.
Tick(delta, publish) ==
    /\ ticking
    /\ LET nextTime == currentTimeRef + delta
           vs1 == IF publish /\ videoState.isPlaying
                  THEN [videoState EXCEPT !.currentTime = nextTime] ELSE videoState
           atEnd == nextTime >= videoState.duration
           finalize == atEnd /\ isExporting /\ recorder = "recording"
       IN  /\ exportProgress' = IF isExporting
                                THEN (nextTime * 100) \div Max(videoState.duration, 1)
                                ELSE exportProgress
           /\ currentTimeRef' = IF atEnd THEN videoState.duration ELSE nextTime
           /\ syncDue' = IF atEnd THEN FALSE
                         ELSE (syncDue \/ vs1.currentTime # videoState.currentTime)
           /\ videoState' = IF atEnd
                            THEN [vs1 EXCEPT !.currentTime = vs1.duration, !.isPlaying = FALSE]
                            ELSE vs1
           /\ recorder' = IF finalize THEN "inactive" ELSE recorder
           /\ recordedChunks' = IF finalize THEN recordedChunks + 1 ELSE recordedChunks
           /\ finalizeTimer' = IF finalize THEN finalizeTimer + 1 ELSE finalizeTimer
           /\ stops' = IF finalize THEN stops + 1 ELSE stops
           /\ ends' = IF atEnd /\ isExporting /\ ends < 2 THEN ends + 1 ELSE ends
    /\ UNCHANGED <<timelineVars, historyVars, asyncVars, nextId, isExporting, ticking,
                   deliveries, log>>

\* The render after a frame callback published its time: the playback effect
\* runs again on the new videoState.currentTime, takes it for the clock and
\* requests the next frame. Frame callbacks may run before it does.
SyncClock ==
    /\ syncDue
    /\ videoState.isPlaying
    /\ currentTimeRef' = videoState.currentTime
    /\ syncDue' = FALSE
    /\ ticking' = TRUE
    /\ UNCHANGED <<timelineVars, videoState, historyVars, asyncVars, nextId, isExporting,
                   exportProgress, recorder, recordedChunks, finalizeTimer, deliveries,
                   stops, ends, log>>

\* The render after a frame callback stopped the clock: the playback effect's
\* else branch cancels the frame requested and syncs the ref.
StopClock ==
    /\ ticking
    /\ ~videoState.isPlaying
    /\ ticking' = FALSE
    /\ currentTimeRef' = videoState.currentTime
    /\ syncDue' = FALSE
    /\ UNCHANGED <<timelineVars, videoState, historyVars, asyncVars, nextId, isExporting,
                   exportProgress, recorder, recordedChunks, finalizeTimer, deliveries,
                   stops, ends, log>>

\* A finalize callback that keeps the requested extension when the conversion
\* fails: the alternative the fallback's filename clause excludes.
FinalizeKeepsName(format, converted) ==
    /\ finalizeTimer > 0
    /\ finalizeTimer' = finalizeTimer - 1
    /\ deliveries' = Append(deliveries,
                            [requested |-> format,
                             converted |-> format # "webm" /\ converted,
                             extension |-> format,
                             blob |-> IF format # "webm" /\ converted
                                      THEN "converted" ELSE "webm",
                             chunks |-> recordedChunks])
    /\ isExporting' = FALSE
    /\ exportProgress' = 0
    /\ UNCHANGED <<timelineVars, videoState, currentTimeRef, syncDue, historyVars, asyncVars,
                   nextId,
                   recorder, recordedChunks, ticking, stops, ends, log>>

\* The timer callback of handleFinalizeExport: the captured webm is converted
\* when another format is asked for, delivered, and the controller goes idle.
FinalizeTimeout(format, converted) ==
    /\ finalizeTimer > 0
    /\ finalizeTimer' = finalizeTimer - 1
    /\ deliveries' = Append(deliveries,
                            [requested |-> format,
                             converted |-> format # "webm" /\ converted,
                             extension |-> IF format # "webm" /\ ~converted
                                           THEN "webm" ELSE format,
                             blob |-> IF format # "webm" /\ converted
                                      THEN "converted" ELSE "webm",
                             chunks |-> recordedChunks])
    /\ isExporting' = FALSE
    /\ exportProgress' = 0
    /\ UNCHANGED <<timelineVars, videoState, currentTimeRef, syncDue, historyVars, asyncVars,
                   nextId,
                   recorder, recordedChunks, ticking, stops, ends, log>>

\* onEnded={() => handleUpdateState({ isPlaying: false })} on the player's
\* <video>: the element runs on its own clock and fires when its file ends,
\* wherever the timeline's clock is by then.
MediaEnded ==
    /\ videoState.isPlaying
    /\ ~isExporting
    /\ HasStream(clips, videoState.currentTime)
    /\ videoState' = [videoState EXCEPT !.isPlaying = FALSE]
    /\ currentTimeRef' = videoState.currentTime
    /\ syncDue' = FALSE
    /\ ticking' = FALSE
    /\ UNCHANGED <<timelineVars, historyVars, asyncVars, nextId, isExporting, exportProgress,
                   recorder, recordedChunks, finalizeTimer, deliveries, stops, ends, log>>

NextExport ==
    \/ \E t \in SeekTimes : Seek(t)
    \/ TogglePlay
    \/ \E id \in Ids(audioClips) : SelectAudioClip(id)
    \/ ExportStart
    \/ \E d \in TickDeltas, publish \in BOOLEAN : Tick(d, publish)
    \/ SyncClock
    \/ StopClock
    \/ MediaEnded
    \/ \E f \in ExportFormats, converted \in BOOLEAN : FinalizeTimeout(f, converted)

\* Frame callbacks, renders and timers are the browser's: each runs if it stays due.
ExportFairness ==
    /\ WF_vars(\E d \in TickDeltas, publish \in BOOLEAN : Tick(d, publish))
    /\ WF_vars(SyncClock)
    /\ WF_vars(StopClock)
    /\ WF_vars(\E f \in ExportFormats, converted \in BOOLEAN : FinalizeTimeout(f, converted))

SpecExport == Init /\ [][NextExport]_vars /\ ExportFairness

\* ------------------------------------------- editing during an export

\* The timeline's handlers and the export controller together: the timeline
\* stays mounted below the export overlay.
NextExportEdit ==
    \/ ExportStart
    \/ \E d \in TickDeltas, publish \in BOOLEAN : Tick(d, publish)
    \/ SyncClock
    \/ StopClock
    \/ \E f \in ExportFormats, converted \in BOOLEAN : FinalizeTimeout(f, converted)
    \/ \E id \in Ids(clips), s \in MoveTargets : MoveVideo(id, s)
    \/ \E id \in Ids(audioClips), s \in MoveTargets : MoveAudio(id, s)
    \/ \E id \in Ids(clips) : ToggleMuteVideo(id)
    \/ \E id \in Ids(audioClips) : ToggleMuteAudio(id)
    \/ \E id \in Ids(clips) : DropPreset(id, "transition", "fade")
    \/ Split
    \/ TrimLeft
    \/ TrimRight
    \/ DeleteAtPlayhead

SpecExportEdit == Init /\ [][NextExportEdit]_vars /\ ExportFairness

\* ------------------------------------------------ the Timeline's drags

\* The operations mousemove logs during a drag gesture.
PointerOps == {"pointerMove", "pointerMoveDropped"}

\* The clip of the drag gesture under way: draggingVideoId or draggingAudioId,
\* set by mousedown on a clip and cleared by mouseup; 0 between gestures.
Dragging == IF log # <<>> /\ log[Len(log)].op \in PointerOps THEN log[Len(log)].id ELSE 0

\* handleMouseMove of the drag effect with the pointer at the place that asks
\* for start nextStart (already clamped to [0, maxStart]); soon: less than
\* DRAG_THROTTLE (16 ms) passed since the last mousemove that went through.
\* mousedown sets lastDragUpdateRef to 0: a gesture's first mousemove goes through.
DragMove(id, nextStart, soon) ==
    /\ Dragging \in {0, id}
    /\ soon => Dragging = id
    /\ \E c \in Range(clips) \cup Range(audioClips) :
          c.id = id /\ nextStart <= Max(0, TimelineDuration - c.duration)
    /\ IF soon
       THEN /\ Step("pointerMoveDropped", id, nextStart)
            /\ UNCHANGED <<timelineVars, videoState, currentTimeRef, syncDue, historyVars>>
       ELSE /\ Step("pointerMove", id, nextStart)
            /\ Edit(MoveClip(clips, id, nextStart), MoveClip(audioClips, id, nextStart))
    /\ UNCHANGED <<asyncVars, exportVars, nextId>>

\* handleMouseUp: the gesture ends, nothing else
DragEnd ==
    /\ Dragging # 0
    /\ Step("pointerUp", Dragging, 0)
    /\ UNCHANGED <<timelineVars, videoState, currentTimeRef, syncDue, historyVars,
                   asyncVars, exportVars, nextId>>

NextDrag ==
    \/ \E id \in Ids(clips) \cup Ids(audioClips), s \in MoveTargets, soon \in BOOLEAN :
          DragMove(id, s, soon)
    \/ DragEnd

SpecDrag == Init /\ [][NextDrag]_vars

\* ------------------------------------------------- a long editing session

\* The track of the one-clip project after its clip's mute button was
\* clicked i - 1 times.
TrackAfterToggles(i) ==
    <<[VideoClip(1, "video", 0, 2 * Second, "none", "none") EXCEPT !.isMuted = (i % 2 = 0)]>>

\* The history those clicks leave: the snapshot of the restore, then one per click.
HistoryAfterToggles(n) == [i \in 1..n |-> Snapshot(TrackAfterToggles(i), <<>>, <<>>)]

\* How many snapshots the session has recorded, and how many undos followed.
HistoryDepths == {HISTORY_LIMIT - 1, HISTORY_LIMIT}
UndoDepths == {0, 1}

\* The editor on the one-clip project after n - 1 clicks on the clip's mute
\* button and u undos: the states a long session reaches before the history's
\* limit is met.
InitHistory ==
    \E n \in HistoryDepths, u \in UndoDepths :
        /\ clips = TrackAfterToggles(n - u)
        /\ audioClips = <<>>
        /\ subtitles = <<>>
        /\ videoState = PlaybackState(Second, 2 * Second)
        /\ history = HistoryAfterToggles(n)
        /\ historyIndex = n - 1 - u
        /\ isUndoRedoAction = FALSE
        /\ isLoadingMedia = FALSE
        /\ isProcessingAI = FALSE
        /\ pendingImport = None
        /\ pendingAI = <<>>
        /\ nextId = 2
        /\ isExporting = FALSE
        /\ exportProgress = 0
        /\ recorder = "none"
        /\ recordedChunks = 0
        /\ currentTimeRef = Second
        /\ syncDue = FALSE
        /\ ticking = FALSE
        /\ finalizeTimer = 0
        /\ deliveries = <<>>
        /\ stops = 0
        /\ ends = 0
        /\ log = <<>>

NextHistory ==
    \/ \E id \in Ids(clips) : ToggleMuteVideo(id)
    \/ \E id \in Ids(clips), s \in MoveTargets : MoveVideo(id, s)
    \/ Split
    \/ Undo
    \/ Redo

SpecHistory == InitHistory /\ [][NextHistory]_vars

\* ------------------------------------------------- imports that fail

\* What the probe of a chosen file ends with: a length, a reading that is not
\* a finite positive number (0), or the element's error event.
ImportProbes == {2 * Second, 0, ProbeError}

\* The operations drawn leave room in the log for a running import to finish.
RoomToFinish == pendingImport = None \/ Len(log) + 1 < MaxSteps

NextImport ==
    \/ /\ Len(log) + 1 < MaxSteps
       /\ \E kind \in {"video", "image", "audio"}, d \in ImportProbes : ImportStart(kind, d)
    \/ \E uploaded \in BOOLEAN : ImportFinish(uploaded)
    \/ RoomToFinish /\ \E t \in SeekTimes : Seek(t)
    \/ RoomToFinish /\ \E id \in Ids(clips), s \in MoveTargets : MoveVideo(id, s)

\* The upload's and the probe's promises settle: the fetch resolves or
\* rejects, the media element fires loadedmetadata or error.
ImportFairness == WF_vars(\E uploaded \in BOOLEAN : ImportFinish(uploaded))

SpecImport == Init /\ [][NextImport]_vars /\ ImportFairness

\* ------------------------------------------------- the player's look

\* const TRANSITION_DURATION = 0.5
TRANSITION_DURATION == 150

RECURSIVE Join(_)
\* filters.join(' ')
Join(terms) ==
    IF terms = <<>> THEN ""
    ELSE IF Len(terms) = 1 THEN terms[1]
    ELSE terms[1] \o " " \o Join(Tail(terms))

\* `name(${pct}%)`
Percent(name, pct) == name \o "(" \o ToString(pct) \o "%)"

\* The cases of filterStyle's switch; any other filter pushes nothing.
PresetTerms(activeFilter) ==
    CASE activeFilter = "grayscale" -> <<"grayscale(100%)">>
      [] activeFilter = "sepia" -> <<"sepia(100%)">>
      [] activeFilter = "vintage" -> <<"sepia(40%) contrast(110%) brightness(95%) saturate(80%)">>
      [] activeFilter = "cyberpunk" -> <<"hue-rotate(170deg) saturate(180%) contrast(140%)">>
      [] activeFilter = "warm" -> <<"sepia(25%) saturate(140%) hue-rotate(-15deg)">>
      [] activeFilter = "invert" -> <<"invert(100%)">>
      [] activeFilter = "blur" -> <<"blur(4px)">>
      [] activeFilter = "dramatic" -> <<"contrast(150%) brightness(85%) saturate(80%)">>
      [] activeFilter = "noir" -> <<"grayscale(100%) contrast(160%) brightness(80%)">>
      [] activeFilter = "technicolor" -> <<"saturate(220%) contrast(105%)">>
      [] OTHER -> <<>>

\* const activeFilter = clipFilter || videoState.filter
ActiveFilter(vs, clipFilter) == IF clipFilter # "" THEN clipFilter ELSE vs.filter

\* The player's filters array before the join.
FilterTerms(vs, clipFilter) ==
    <<Percent("brightness", vs.brightness), Percent("contrast", vs.contrast),
      Percent("saturate", vs.saturation)>> \o PresetTerms(ActiveFilter(vs, clipFilter))

\* The player's filterStyle
filterStyle(vs, clipFilter) == Join(FilterTerms(vs, clipFilter))

\* An opacity as a fraction num / den.
Whole == [num |-> 1, den |-> 1]
Times(a, b) == [num |-> a.num * b.num, den |-> a.den * b.den]

\* transitionEffect's first step: the opacity the global fades give.
GlobalFade(vs, timelineTime, clipStart, clipDuration) ==
    LET timeInClip == timelineTime - clipStart
        timeLeft == clipDuration - timeInClip
    IN  IF vs.fadeIn > 0 /\ timeInClip < vs.fadeIn
        THEN [num |-> timeInClip, den |-> vs.fadeIn]
        ELSE IF vs.fadeOut > 0 /\ timeLeft < vs.fadeOut
        THEN [num |-> timeLeft, den |-> vs.fadeOut]
        ELSE Whole

\* transitionEffect's second step: the factor of the clip's own transition
\* (only 'fade' changes the opacity).
TransitionFade(timelineTime, clipStart, clipDuration, tIn, tOut) ==
    LET timeInClip == timelineTime - clipStart
        timeLeft == clipDuration - timeInClip
    IN  IF timeInClip < TRANSITION_DURATION /\ tIn \notin {"", "none"}
        THEN IF tIn = "fade" THEN [num |-> timeInClip, den |-> TRANSITION_DURATION] ELSE Whole
        ELSE IF timeLeft < TRANSITION_DURATION /\ tOut \notin {"", "none"}
        THEN IF tOut = "fade" THEN [num |-> timeLeft, den |-> TRANSITION_DURATION] ELSE Whole
        ELSE Whole

\* The style the player mounted on clip c gives its media at timeline time t.
transitionEffect(vs, c, t) ==
    [opacity |-> Times(GlobalFade(vs, t, c.start, c.duration),
                       TransitionFade(t, c.start, c.duration, c.transitionIn, c.transitionOut)),
     filter |-> filterStyle(vs, c.filter)]

\* Filters the effects panel offers, fade lengths its inputs take and a
\* brightness its slider gives.
PanelFilters == {"sepia", "none"}
PanelNumbers ==
    {[field |-> "brightness", value |-> 120]}
    \cup {[field |-> f, value |-> Second] : f \in {"fadeIn", "fadeOut"}}

\* handleUpdateState({ [field]: value }) from the effects panel
UpdateState(field, value) ==
    /\ ~isExporting
    /\ Step("update", 0, 0)
    /\ videoState' = [videoState EXCEPT ![field] = value]
    /\ currentTimeRef' = IF syncDue THEN videoState.currentTime ELSE currentTimeRef
    /\ syncDue' = FALSE
    /\ UNCHANGED <<timelineVars, historyVars, asyncVars, exportVars, nextId>>

\* What the interpreter answers to "make it look ...": a filter of the named
\* vocabulary or a CSS filter string of its own.
LookAIResponses == {<<FilterAction("noir")>>, <<FilterAction("hue-rotate(90deg)")>>}

NextLook ==
    \/ \E t \in SeekTimes : Seek(t)
    \/ \E f \in PanelFilters : UpdateState("filter", f)
    \/ \E u \in PanelNumbers : UpdateState(u.field, u.value)
    \/ \E id \in Ids(clips) : DropPreset(id, "filter", "sepia")
    \/ AIStart
    \/ \E i \in DOMAIN pendingAI : \E a \in LookAIResponses : AIFinish(i, a)

SpecLook == Init /\ [][NextLook]_vars

\* ------------------------------------------------- the audio followers

\* drift > 0.15 and Math.abs(audioEl.currentTime) > 0.05
DRIFT_TOLERANCE == 45
RESET_TOLERANCE == 15

\* Math.max(0, (currentTime - clipStart) + (clip.offset ?? 0))
TargetTime(clip, vs) == Max(0, (vs.currentTime - clip.start) + clip.offset)

\* currentTime >= clipStart && currentTime < clipEnd
IsActive(clip, vs) == vs.currentTime >= clip.start /\ vs.currentTime < ClipEnd(clip)

\* A pass that seeks every active follower to the target, whatever its drift.
SyncFollowerAlways(clip, vs, el) ==
    IF ~IsActive(clip, vs)
    THEN [currentTime |-> IF Abs(el.currentTime) > RESET_TOLERANCE THEN 0 ELSE el.currentTime,
          paused |-> TRUE]
    ELSE [currentTime |-> TargetTime(clip, vs), paused |-> ~vs.isPlaying]

\* One pass of the audio sync effect over the <audio> element el of clip:
\* its position and whether it is paused afterwards.
SyncFollower(clip, vs, el) ==
    IF ~IsActive(clip, vs)
    THEN [currentTime |-> IF Abs(el.currentTime) > RESET_TOLERANCE THEN 0 ELSE el.currentTime,
          paused |-> TRUE]
    ELSE [currentTime |-> IF Abs(el.currentTime - TargetTime(clip, vs)) > DRIFT_TOLERANCE
                          THEN TargetTime(clip, vs) ELSE el.currentTime,
          paused |-> ~vs.isPlaying]

\* ------------------------------------------------- a project with a mix

\* A saved project whose audio track holds a music bed, a voice-over imported
\* at the playhead while the bed was still running (an audio import starts at
\* videoState.currentTime, wherever the other audio clips are) and an effect
\* further on.
MixProject ==
    [clips |-> <<VideoClip(1, "video", 0, 2 * Second, "none", "none")>>,
     audioClips |-> <<AudioClip(2, 0, 2 * Second), AudioClip(3, Second, 2 * Second),
                      AudioClip(4, 5 * Second, 2 * Second)>>,
     subtitles |-> <<>>, currentTime |-> 0]

InitMix ==
    LET r == Restored(MixProject) IN
    /\ clips = r.clips
    /\ audioClips = r.audioClips
    /\ subtitles = r.subtitles
    /\ videoState = r.videoState
    /\ history = r.history
    /\ historyIndex = r.historyIndex
    /\ isUndoRedoAction = FALSE
    /\ isLoadingMedia = FALSE
    /\ isProcessingAI = FALSE
    /\ pendingImport = None
    /\ pendingAI = <<>>
    /\ nextId = FirstFreeId(MixProject)
    /\ isExporting = FALSE
    /\ exportProgress = 0
    /\ recorder = "none"
    /\ recordedChunks = 0
    /\ currentTimeRef = r.videoState.currentTime
    /\ syncDue = FALSE
    /\ ticking = FALSE
    /\ finalizeTimer = 0
    /\ deliveries = <<>>
    /\ stops = 0
    /\ ends = 0
    /\ log = <<>>

NextMix ==
    \/ \E id \in Ids(audioClips), s \in MoveTargets : MoveAudio(id, s)
    \/ \E id \in Ids(audioClips) : ToggleMuteAudio(id)
    \/ \E t \in SeekTimes : Seek(t)

SpecMix == InitMix /\ [][NextMix]_vars

\* ------------------------------------------------------- the properties

\* The timeline after the first k operations of the log.
VideoAfter(k) == IF k < Len(log) THEN log[k + 1].clips ELSE clips
AudioAfter(k) == IF k < Len(log) THEN log[k + 1].audioClips ELSE audioClips
TimelineAfter(k) ==
    IF k < Len(log) THEN <<log[k + 1].clips, log[k + 1].audioClips, log[k + 1].subtitles>>
    ELSE <<clips, audioClips, subtitles>>

ById(list, id) == list[CHOOSE i \in DOMAIN list : list[i].id = id]

\* The operations C1 is about (a seek only positions the playhead for them).
PlacingOps == {"seek", "importStart", "importFinish", "move", "trimLeft", "trimRight", "split"}

\* C1: after any sequence of imports, moves, playhead trims and splits, no two
\* clips of the video track overlap.
C1_NoOverlapAfterEdits ==
    (\A i \in DOMAIN log : log[i].op \in PlacingOps) => NoOverlap(clips)

EditOps == {"importFinish", "move", "moveAudio", "split", "trimLeft", "trimRight",
            "delete", "mute", "muteAudio", "preset"}

\* C2: an undo right after an edit that changed the timeline restores the
\* (clips, audioClips, subtitles) from before the edit, and a redo right after
\* that undo restores those from after the edit.
C2_UndoRedoRoundTrip ==
    \A i \in DOMAIN log :
        (/\ log[i].op \in EditOps
         /\ TimelineAfter(i) # TimelineAfter(i - 1)
         /\ i + 1 \in DOMAIN log
         /\ log[i + 1].op = "undo")
        => /\ TimelineAfter(i + 1) = TimelineAfter(i - 1)
           /\ (i + 2 \in DOMAIN log /\ log[i + 2].op = "redo")
                 => TimelineAfter(i + 2) = TimelineAfter(i)

\* p is the left piece of c cut at t: [s, t) with c's offset
IsLeftPiece(p, c, t) ==
    p.start = c.start /\ p.duration = t - c.start /\ p.offset = c.offset

\* p is the right piece of c cut at t: [t, s+d) with offset o + (t - s)
IsRightPiece(p, c, t) ==
    p.start = t /\ ClipEnd(p) = ClipEnd(c) /\ p.offset = c.offset + (t - c.start)

\* Splitting the track pre at t gave post, every clip of pre picked by cut
\* being replaced by its two pieces and the others kept.
SplitsInto(pre, post, t, cut) ==
    /\ Len(post) = Len(pre) + Cardinality(cut)
    /\ \A i \in DOMAIN pre :
          IF i \in cut
          THEN /\ pre[i].id \notin Ids(post)
               /\ \E j \in DOMAIN post :
                     /\ j + 1 \in DOMAIN post
                     /\ IsLeftPiece(post[j], pre[i], t)
                     /\ IsRightPiece(post[j + 1], pre[i], t)
                     /\ post[j].duration + post[j + 1].duration = pre[i].duration
                     /\ {post[j].id, post[j + 1].id} \cap Ids(pre) = {}
          ELSE pre[i] \in Range(post)

Containing(list, t) == {i \in DOMAIN list : list[i].start < t /\ t < ClipEnd(list[i])}

\* C6, as amended: a split at t replaces every video clip and every audio clip
\* that contains t by more than epsilon on both sides with its two pieces,
\* [s, t) with offset o and [t, s+d) with offset o + (t - s).
C6_SplitIsLossless ==
    \A i \in DOMAIN log :
        log[i].op = "split"
        => /\ SplitsInto(log[i].clips, VideoAfter(i), log[i].time,
                         Hits(log[i].clips, log[i].time))
           /\ SplitsInto(log[i].audioClips, AudioAfter(i), log[i].time,
                         Hits(log[i].audioClips, log[i].time))

\* C6 as stated: every clip that strictly contains t is split
C6_SplitsEveryClipContaining ==
    \A i \in DOMAIN log :
        log[i].op = "split"
        => /\ SplitsInto(log[i].clips, VideoAfter(i), log[i].time,
                         Containing(log[i].clips, log[i].time))
           /\ SplitsInto(log[i].audioClips, AudioAfter(i), log[i].time,
                         Containing(log[i].audioClips, log[i].time))

\* a split has cut a video clip and an audio clip
C6_Witness ==
    \E i \in DOMAIN log :
        /\ log[i].op = "split"
        /\ Hits(log[i].clips, log[i].time) # {}
        /\ Hits(log[i].audioClips, log[i].time) # {}

TrimOps == {"trimLeft", "trimRight", "aiFinish"}

\* The clips of post whose duration is not the one they had in pre.
Retimed(pre, post) ==
    {c \in Range(post) : \E b \in Range(pre) : b.id = c.id /\ b.duration # c.duration}

\* C7: no trim leaves the clip it shortened with a duration below MIN_DURATION.
C7_TrimKeepsMinDuration ==
    \A i \in DOMAIN log :
        log[i].op \in TrimOps
        => \A c \in Retimed(log[i].clips, VideoAfter(i))
                    \cup Retimed(log[i].audioClips, AudioAfter(i)) :
              c.duration >= MIN_DURATION

MoveOps == {"move", "moveAudio"}

\* The track a move of the log worked on, before and after it.
TrackBefore(i) == IF log[i].op = "move" THEN log[i].clips ELSE log[i].audioClips
TrackAfter(i) == IF log[i].op = "move" THEN VideoAfter(i) ELSE AudioAfter(i)

\* The clips of the track other than the moved one.
Others(i) == {c \in Range(TrackBefore(i)) : c.id # log[i].id}

\* Where the move asks the clip to be: the requested start on the frame grid,
\* not below 0, for the clip's duration.
Spot(i) == [start |-> Max(0, Quantize(log[i].arg)),
            duration |-> ById(TrackBefore(i), log[i].id).duration]

\* C8: on a track without overlap a move never decreases the start of a clip
\* other than the moved one, and leaves every other start as it was when the
\* moved clip's new interval overlaps no other clip.
C8_MoveOnlyPushesLater ==
    \A i \in DOMAIN log :
        (log[i].op \in MoveOps /\ NoOverlap(TrackBefore(i)))
        => /\ \A c \in Others(i) : ById(TrackAfter(i), c.id).start >= c.start
           /\ (\A c \in Others(i) : ~Overlaps(Spot(i), c))
                 => \A c \in Others(i) : ById(TrackAfter(i), c.id).start = c.start

\* a move into free space has left a gap in front of another clip, and a move
\* into occupied space has pushed another clip later
C8_Witness ==
    /\ \E i \in DOMAIN log :
          /\ log[i].op \in MoveOps /\ NoOverlap(TrackBefore(i))
          /\ \A c \in Others(i) : ~Overlaps(Spot(i), c)
          /\ \E c \in Others(i) :
                /\ c.start > Spot(i).start + Spot(i).duration
                /\ \A b \in Others(i) : b.start < c.start => ClipEnd(b) <= Spot(i).start
    /\ \E i \in DOMAIN log :
          /\ log[i].op \in MoveOps /\ NoOverlap(TrackBefore(i))
          /\ \E c \in Others(i) : ById(TrackAfter(i), c.id).start > c.start

\* C9, as amended: when the requested start, put on the frame grid, lies after
\* the start and before the end of another clip x, the moved clip starts at x's
\* end or later and x is not moved earlier; x keeps its position when the
\* other clips of the track do not overlap one another.
C9_MoveIntoOccupiedSpan ==
    \A i \in DOMAIN log :
        log[i].op = "move"
        => \A x \in Others(i) :
              (x.start < Spot(i).start /\ Spot(i).start < ClipEnd(x))
              => /\ ById(TrackAfter(i), log[i].id).start >= ClipEnd(ById(TrackAfter(i), x.id))
                 /\ ById(TrackAfter(i), x.id).start >= x.start
                 /\ (\A a, b \in Others(i) : a.id # b.id => ~Overlaps(a, b))
                       => ById(TrackAfter(i), x.id).start = x.start

\* C9 as stated: a requested start s with x.start <= s < x's end
C9_MoveOntoAnyPointOfSpan ==
    \A i \in DOMAIN log :
        log[i].op = "move"
        => \A x \in Others(i) :
              (x.start <= log[i].arg /\ log[i].arg < ClipEnd(x))
              => /\ ById(TrackAfter(i), x.id).start = x.start
                 /\ ById(TrackAfter(i), log[i].id).start >= ClipEnd(x)

\* a clip was asked to start inside another one and was placed at its end
C9_Witness ==
    \E i \in DOMAIN log :
        /\ log[i].op = "move"
        /\ \E x \in Others(i) :
              /\ x.start < Spot(i).start /\ Spot(i).start < ClipEnd(x)
              /\ ById(TrackAfter(i), log[i].id).start = ClipEnd(x)
              /\ ById(TrackAfter(i), log[i].id).start # log[i].arg

\* The trim of log entry i did to every clip of pre picked by cut what C10 says.
TrimmedAsStated(op, pre, post, t, cut) ==
    /\ Len(post) = Len(pre)
    /\ \A k \in cut :
          /\ post[k].id = pre[k].id
          /\ IF op = "trimLeft"
             THEN /\ post[k].start = t
                  /\ post[k].duration = pre[k].start + pre[k].duration - t
                  /\ post[k].offset = pre[k].offset + (t - pre[k].start)
             ELSE /\ post[k].start = pre[k].start
                  /\ post[k].duration = t - pre[k].start
                  /\ post[k].offset = pre[k].offset

PlayheadTrims == {"trimLeft", "trimRight"}

\* C10, as amended: on a clip that contains t by more than epsilon on both
\* sides, trimLeft yields start t, duration s+d-t and offset o+(t-s), and
\* trimRight yields duration t-s with start and offset unchanged.
C10_TrimAtPlayhead ==
    \A i \in DOMAIN log :
        log[i].op \in PlayheadTrims
        => /\ TrimmedAsStated(log[i].op, log[i].clips, VideoAfter(i), log[i].time,
                              Hits(log[i].clips, log[i].time))
           /\ TrimmedAsStated(log[i].op, log[i].audioClips, AudioAfter(i), log[i].time,
                              Hits(log[i].audioClips, log[i].time))

\* C10 as stated: every clip that strictly contains t is trimmed
C10_TrimsEveryClipContaining ==
    \A i \in DOMAIN log :
        log[i].op \in PlayheadTrims
        => /\ TrimmedAsStated(log[i].op, log[i].clips, VideoAfter(i), log[i].time,
                              Containing(log[i].clips, log[i].time))
           /\ TrimmedAsStated(log[i].op, log[i].audioClips, AudioAfter(i), log[i].time,
                              Containing(log[i].audioClips, log[i].time))

\* a left trim and a right trim have each cut a clip
C10_Witness ==
    \E i, j \in DOMAIN log :
        /\ log[i].op = "trimLeft" /\ log[j].op = "trimRight"
        /\ Hits(log[i].clips, log[i].time) \cup Hits(log[i].audioClips, log[i].time) # {}
        /\ Hits(log[j].clips, log[j].time) \cup Hits(log[j].audioClips, log[j].time) # {}

\* C3: every export that is started returns to Idle with the progress at 0.
C3_ExportReturnsToIdle == isExporting ~> (~isExporting /\ exportProgress = 0)

\* C4: once the clock of an export has reached the timeline's end, the capture
\* was stopped and the assembly scheduled exactly once, however many frame
\* callbacks ran after it, and only handleExportStart enters Rendering.
C4_FinalizesExactlyOnce ==
    /\ [](ends > 0 => stops = 1)
    /\ [][(Phase # "Rendering" /\ Phase' = "Rendering")
             => (Len(log') = Len(log) + 1 /\ log'[Len(log')].op = "exportStart")]_vars

\* C5: an export's start leaves the controller in Rendering at currentTime 0,
\* playing, with progress 0 and no chunks, and a recorder is recording
\* whenever the controller is in Rendering.
C5_RenderingHasRecorder ==
    /\ [][(~isExporting /\ isExporting')
             => /\ Phase' = "Rendering"
                /\ videoState'.currentTime = 0
                /\ videoState'.isPlaying
                /\ exportProgress' = 0
                /\ recordedChunks' = 0]_vars
    /\ [](Phase = "Rendering" => recorder = "recording")

\* The clips of list that keep picks out, in the list's order.
RECURSIVE Keeping(_, _)
Keeping(list, keep) ==
    IF list = <<>> THEN <<>>
    ELSE IF Head(list).id \in keep THEN <<Head(list)>> \o Keeping(Tail(list), keep)
         ELSE Keeping(Tail(list), keep)

\* The ids of the clips of list that hold t at least epsilon after their start
\* and more than epsilon before their end.
WithinMargin(list, t) == {c.id : c \in {x \in Range(list) : DeleteHit(x, t)}}

\* The ids of the clips of list whose interval strictly contains t.
StrictlyContaining(list, t) == {list[i].id : i \in Containing(list, t)}

\* C11, as amended: a delete at t removes the video and audio clips that hold t
\* with the epsilon margin and leaves every other clip as it was, in place.
C11_DeleteLeavesSurvivors ==
    \A i \in DOMAIN log :
        log[i].op = "delete"
        => /\ VideoAfter(i) = Keeping(log[i].clips,
                                      Ids(log[i].clips) \ WithinMargin(log[i].clips, log[i].time))
           /\ AudioAfter(i) = Keeping(log[i].audioClips,
                                      Ids(log[i].audioClips)
                                          \ WithinMargin(log[i].audioClips, log[i].time))

\* C11 as stated: exactly the clips that strictly contain t are removed
C11_DeletesEveryClipContaining ==
    \A i \in DOMAIN log :
        log[i].op = "delete"
        => /\ VideoAfter(i) = Keeping(log[i].clips,
                                      Ids(log[i].clips)
                                          \ StrictlyContaining(log[i].clips, log[i].time))
           /\ AudioAfter(i) = Keeping(log[i].audioClips,
                                      Ids(log[i].audioClips)
                                          \ StrictlyContaining(log[i].audioClips, log[i].time))

\* a delete removed a video clip and a clip that started after it is where it was
C11_Witness ==
    \E i \in DOMAIN log :
        /\ log[i].op = "delete"
        /\ \E c, b \in Range(log[i].clips) :
              /\ DeleteHit(c, log[i].time)
              /\ b.start >= ClipEnd(c)
              /\ b \in Range(VideoAfter(i))

\* The playhead and the times at and next to the clips' edges, within the project.
ProbeTimes ==
    {t \in {videoState.currentTime}
           \cup UNION {{c.start, c.start + 1, ClipEnd(c) - 1, ClipEnd(c)} : c \in Range(clips)} :
        t >= 0 /\ t <= Max(videoState.duration, calculateProjectDuration(clips, audioClips))}

\* The video clips whose [start, start+duration) holds t.
Matching(t) == {c \in Range(clips) : c.start <= t /\ t < ClipEnd(c)}

\* C12: the resolver returns no clip exactly when no video clip's interval
\* holds the time; otherwise it returns a clip whose interval holds it and
\* whose start is the latest of those that do; without overlap one clip at
\* most matches.
C12_ResolverPicksLatestStart ==
    \A t \in ProbeTimes :
        LET r == ActiveClipAt(clips, t) IN
        /\ (r = None) <=> (Matching(t) = {})
        /\ Matching(t) # {} => /\ r \in Matching(t)
                               /\ \A c \in Matching(t) : c.start <= r.start
        /\ NoOverlap(clips) => Cardinality(Matching(t)) <= 1

\* two clips hold the same time and the resolver returned the later one; at
\* another time within the project no clip matches and it returned none
C12_Witness ==
    /\ \E t \in ProbeTimes :
          \E c \in Matching(t) : c.start < ActiveClipAt(clips, t).start
    /\ \E t \in ProbeTimes : Matching(t) = {} /\ ActiveClipAt(clips, t) = None

StructuralOps == {"importFinish", "move", "moveAudio", "split", "trimLeft", "trimRight",
                  "delete", "undo", "redo", "aiFinish"}

\* The last operation was a structural mutation (its render has run).
AfterMutation == log # <<>> /\ log[Len(log)].op \in StructuralOps

EmptyTimeline == clips = <<>> /\ audioClips = <<>>

\* C14: for an empty timeline the total duration handed to the Timeline, the
\* latest clip end floored at the minimum ruler length, is RULER_MIN and not 0.
C14_EmptyTimelineRuler ==
    EmptyTimeline => TimelineDuration = RULER_MIN /\ TimelineDuration # 0

\* the timeline became empty by the deletion of its last clip
C14_Witness ==
    /\ EmptyTimeline
    /\ log # <<>> /\ log[Len(log)].op = "delete"
    /\ log[Len(log)].clips # <<>>

\* Playback has stopped at the end of the project.
StoppedAtEnd == ~videoState.isPlaying /\ videoState.currentTime = videoState.duration

\* C15: a tick of a playing editor whose clock reaches the project's duration
\* leaves currentTime at the duration and isPlaying false; playback that no
\* user input interrupts stops at the duration; and only user input starts it
\* again.
C15_PlaybackStopsAtEnd ==
    /\ [][(videoState.isPlaying /\ currentTimeRef' = videoState.duration
             /\ currentTimeRef # currentTimeRef' /\ log' = log)
          => (videoState'.currentTime = videoState.duration /\ ~videoState'.isPlaying)]_vars
    /\ \A k \in 0..MaxSteps :
          (videoState.isPlaying /\ Len(log) = k) ~> (StoppedAtEnd \/ Len(log) > k)
    /\ [][(~videoState.isPlaying /\ videoState'.isPlaying) => log' # log]_vars

\* C16: every clip of the video and audio tracks has a duration above 0.
C16_DurationsArePositive ==
    \A c \in Range(clips) \cup Range(audioClips) : c.duration > 0

\* What C17 compares of a video track: each clip's start, duration, source
\* offset and transition tags, in the track's order.
TrackShape(list) ==
    [i \in DOMAIN list |->
        [start |-> list[i].start, duration |-> list[i].duration, offset |-> list[i].offset,
         transitionIn |-> list[i].transitionIn, transitionOut |-> list[i].transitionOut]]

\* C17: the AI action split_clip with timestamp t leaves the video track as the
\* split at the playhead does with the playhead at t, on the same timeline.
C17_AISplitMatchesManualSplit ==
    \A t \in AISplitTimes :
        TrackShape(applyAIAction(SplitAction(t), videoState, clips, nextId).updatedClips)
            = TrackShape(SplitVideo(clips, t, nextId))


\* ---- C18 ---------------------------------------------------------------
SeekStep == Len(log') = Len(log) + 1 /\ log'[Len(log')].op = "seek"
SeekTarget == log'[Len(log')].arg

\* C18 (as written): onSeek(t) sets currentTime to t whether the editor is
\* playing or paused, and leaves isPlaying unchanged.
C18_SeekAlwaysSetsTime ==
    [][SeekStep => /\ videoState'.currentTime = SeekTarget
                   /\ videoState'.isPlaying = videoState.isPlaying]_vars

\* C18 (amended): outside an export, onSeek(t) sets currentTime to t whether
\* the editor is playing or paused and leaves isPlaying unchanged; while an
\* export is running the seek is ignored and videoState is left as it was.
C18_SeekSetsTimeUnlessExporting ==
    [][SeekStep => IF isExporting
                   THEN videoState' = videoState
                   ELSE /\ videoState'.currentTime = SeekTarget
                        /\ videoState'.isPlaying = videoState.isPlaying
                        /\ \A f \in DOMAIN videoState \ {"currentTime"}:
                               videoState'[f] = videoState[f]]_vars

\* A seek has just acted while the editor was playing, to a time other than
\* the one the playhead had, and playback is still on.
C18_Witness ==
    /\ log # <<>>
    /\ log[Len(log)].op = "seek"
    /\ log[Len(log)].time # log[Len(log)].arg
    /\ ~isExporting
    /\ videoState.isPlaying
    /\ videoState.currentTime = log[Len(log)].arg

\* ---- C19 ---------------------------------------------------------------
DeliveryStep == Len(deliveries') = Len(deliveries) + 1
Delivered == deliveries'[Len(deliveries')]
ConversionFailed(d) == d.requested # "webm" /\ ~d.converted

\* C19: when the requested export format differs from webm and the conversion
\* fails, the raw captured webm is still delivered, under a .webm filename, and
\* the export completes and returns to Idle with the progress at 0.
C19_FailedConversionDeliversWebm ==
    [][(DeliveryStep /\ ConversionFailed(Delivered))
          => /\ Delivered.blob = "webm"
             /\ Delivered.chunks = recordedChunks
             /\ Delivered.extension = "webm"
             /\ Phase' = "Idle"
             /\ exportProgress' = 0]_vars

\* An export asked for mp4, its conversion failed, and the captured webm has
\* just been delivered as .webm with the controller idle again.
C19_Witness ==
    /\ deliveries # <<>>
    /\ ConversionFailed(deliveries[Len(deliveries)])
    /\ deliveries[Len(deliveries)].requested = "mp4"
    /\ deliveries[Len(deliveries)].extension = "webm"
    /\ deliveries[Len(deliveries)].blob = "webm"
    /\ deliveries[Len(deliveries)].chunks > 0
    /\ Phase = "Idle"

\* ---- C20 ---------------------------------------------------------------
OrderedByStart(list) ==
    \A i, j \in DOMAIN list : i < j => list[i].start <= list[j].start

\* The imports that put a video clip on the track: the k-th operation finished
\* an upload and the track after it holds the clip the upload was given.
VideoImports ==
    {k \in DOMAIN log :
        /\ log[k].op = "importFinish"
        /\ log[k].id \in Ids(VideoAfter(k))
        /\ log[k].id \notin Ids(log[k].clips)
        /\ ById(VideoAfter(k), log[k].id).type = "video"}

\* C20: a newly imported video clip starts at the end of the current video
\* track (the maximum of start+duration over the existing video clips, 0 if
\* there are none), and after the import the clip list is ordered by start.
C20_ImportAppendsAtTrackEnd ==
    \A k \in VideoImports :
        /\ ById(VideoAfter(k), log[k].id).start = MaxEnd(log[k].clips)
        /\ OrderedByStart(VideoAfter(k))

\* ---- C21 ---------------------------------------------------------------
\* C21: a move of a video clip changes only the video track and a move of an
\* audio clip changes only the audio track, even when a video clip and an
\* audio clip overlap in time.
C21_MovesStayOnTheirTrack ==
    \A k \in DOMAIN log :
        /\ log[k].op = "move" => AudioAfter(k) = log[k].audioClips
        /\ log[k].op = "moveAudio" => VideoAfter(k) = log[k].clips

CrossTrackOverlap(vs, as) ==
    \E i \in DOMAIN vs, j \in DOMAIN as : Overlaps(vs[i], as[j])

\* A video clip and an audio clip were each moved to a new place, each move
\* ending with a video clip and an audio clip overlapping in time.
C21_Witness ==
    \E k, m \in DOMAIN log :
        /\ log[k].op = "move"
        /\ VideoAfter(k) # log[k].clips
        /\ CrossTrackOverlap(VideoAfter(k), AudioAfter(k))
        /\ \E i \in DOMAIN AudioAfter(k) :
              Overlaps(ById(VideoAfter(k), log[k].id), AudioAfter(k)[i])
        /\ log[m].op = "moveAudio"
        /\ AudioAfter(m) # log[m].audioClips
        /\ \E i \in DOMAIN VideoAfter(m) :
              Overlaps(ById(AudioAfter(m), log[m].id), VideoAfter(m)[i])

\* ---- C22 ---------------------------------------------------------------
\* The video track a split_clip action with timestamp t leaves.
AISplitOf(list, t) == applyAIAction(SplitAction(t), videoState, list, nextId).updatedClips

\* C22: after a split at the playhead, or a split_clip action, of a clip that
\* carries transition tags, the left piece has no transitionOut and the right
\* piece has no transitionIn.
C22_SplitDropsTransitionTags ==
    /\ \A i \in Hits(clips, videoState.currentTime) :
          /\ VideoSplitLeft(clips[i], videoState.currentTime, nextId).transitionOut = "none"
          /\ VideoSplitRight(clips[i], videoState.currentTime, nextId + 1).transitionIn = "none"
    /\ \A t \in AISplitTimes :
          LET idx == FindIndexAt(clips, t) IN
          idx # 0 => /\ AISplitOf(clips, t)[idx].transitionOut = "none"
                     /\ AISplitOf(clips, t)[idx + 1].transitionIn = "none"

\* ---- C23 ---------------------------------------------------------------
\* C23: from an export's start until its finalization, currentTime and
\* isPlaying change only through clock ticks: no operation of the user and no
\* completion of an asynchronous command changes them.
C23_ExportClockOnlyTicks ==
    [][(isExporting /\ (videoState'.currentTime # videoState.currentTime
                         \/ videoState'.isPlaying # videoState.isPlaying))
          => log' = log]_vars

\* ---- C24 ---------------------------------------------------------------
\* The operation that started the export in progress.
ExportStartedAt ==
    CHOOSE k \in DOMAIN log :
        /\ log[k].op = "exportStart"
        /\ \A m \in DOMAIN log : log[m].op = "exportStart" => m <= k

\* C24: while an export is in progress no operation changes clips or
\* audioClips: the timeline is as it was when the export started.
C24_TimelineFrozenDuringExport ==
    isExporting => /\ clips = log[ExportStartedAt].clips
                   /\ audioClips = log[ExportStartedAt].audioClips

\* ---- C25 ---------------------------------------------------------------
\* Every clip of list before is in list after, as it was.
KeptIn(before, after) ==
    \A id \in Ids(before) : id \in Ids(after) /\ ById(after, id) = ById(before, id)

\* C25: an edit applied while an import or an AI command is in flight is not
\* lost: the completion of an import leaves every clip the timeline held just
\* before it as it was and adds the imported one, and the completion of an AI
\* command that returned no action leaves the video track as it was.
C25_AsyncCompletionKeepsEdits ==
    \A n \in DOMAIN log :
        /\ log[n].op = "importFinish" =>
              /\ KeptIn(log[n].clips, VideoAfter(n))
              /\ KeptIn(log[n].audioClips, AudioAfter(n))
        /\ (log[n].op = "aiFinish" /\ log[n].id = 0) => VideoAfter(n) = log[n].clips

\* ---- C26 ---------------------------------------------------------------
\* C26: in every reachable state the playhead is within the project:
\* 0 <= currentTime <= the duration held in the playback state.
C26_PlayheadWithinDuration ==
    /\ 0 <= videoState.currentTime
    /\ videoState.currentTime <= videoState.duration

\* ---- C27 ---------------------------------------------------------------
\* C27: while the editor plays and no seek or edit is made, the clock's time
\* (currentTimeRef) never decreases, however the frame callbacks interleave
\* with the effect that copies the published time back into the clock.
C27_ClockNeverDecreases ==
    [][(videoState.isPlaying /\ videoState'.isPlaying /\ log' = log)
          => currentTimeRef' >= currentTimeRef]_vars

\* ---- C28 ---------------------------------------------------------------
\* C28: when a drag gesture on a video or audio clip ends, the clip is stored
\* where the last pointer position reported during the gesture puts it:
\* positions before the last may be dropped by the throttle, the last is applied.
C28_DragEndsAtLastPointer ==
    \A n \in DOMAIN log :
        (log[n].op = "pointerUp" /\ n > 1) =>
            LET last == log[n - 1] IN
            /\ VideoAfter(n) = MoveClip(last.clips, last.id, last.arg)
            /\ AudioAfter(n) = MoveClip(last.audioClips, last.id, last.arg)

\* ---- C29 ---------------------------------------------------------------
\* C29: after any sequence of edits, undos and redos the history holds at
\* most 50 snapshots, and whenever it is not empty
\* 0 <= historyIndex <= history.length - 1.
C29_HistoryIsBounded ==
    /\ Len(history) <= HISTORY_LIMIT
    /\ history # <<>> => (0 <= historyIndex /\ historyIndex <= Len(history) - 1)

\* An edit met a full history: the oldest snapshot (the restore's, with the
\* clip unmuted) is gone and the history holds 50 again, the index on the last.
C29_Witness ==
    /\ log # <<>>
    /\ log[Len(log)].op \in EditOps
    /\ Len(history) = HISTORY_LIMIT
    /\ historyIndex = HISTORY_LIMIT - 1
    /\ history[1] # Snapshot(TrackAfterToggles(1), <<>>, <<>>)

\* ---- C30 ---------------------------------------------------------------
\* The last operation is an edit that changed the timeline and came right
\* after an undo, so that a redo was possible when it was made.
EditAfterUndo ==
    /\ Len(log) >= 2
    /\ log[Len(log)].op \in EditOps
    /\ log[Len(log) - 1].op = "undo"
    /\ TimelineAfter(Len(log)) # TimelineAfter(Len(log) - 1)

\* C30: a new edit made after one or more undos discards every snapshot a redo
\* could reach: right after it historyIndex = history.length - 1 (handleRedo
\* returns at once), and the newest snapshot is the timeline the edit left.
C30_EditDiscardsRedo ==
    EditAfterUndo =>
        /\ historyIndex = Len(history) - 1
        /\ history[Len(history)] = Snapshot(clips, audioClips, subtitles)

\* ---- C31 ---------------------------------------------------------------
\* What the player is told to show at timeline time u: the source position
\* (u - clipStart) + clipOffset of the active clip, -1 with no active clip.
SourcePosition(list, u) ==
    LET c == ActiveClipAt(list, u)
    IN  IF c = None THEN -1 ELSE (u - c.start) + c.offset

\* u is an instant the clips cut at t still cover after the operation.
RetainedBySplit(t, u) == \E i \in Hits(clips, t) : clips[i].start <= u /\ u < ClipEnd(clips[i])
RetainedByTrimLeft(t, u) == \E i \in Hits(clips, t) : t <= u /\ u < ClipEnd(clips[i])
RetainedByTrimRight(t, u) == \E i \in Hits(clips, t) : clips[i].start <= u /\ u < t

\* C31: with the playhead at any time t, a split, a left trim and a right trim
\* leave the source position shown at every instant u their clips still cover
\* as it was before the operation.
C31_EditsKeepSourcePosition ==
    \A t \in ProbeTimes, u \in ProbeTimes :
        /\ RetainedBySplit(t, u) =>
              SourcePosition(SplitVideo(clips, t, nextId), u) = SourcePosition(clips, u)
        /\ RetainedByTrimLeft(t, u) =>
              SourcePosition(TrimLeftList(clips, t), u) = SourcePosition(clips, u)
        /\ RetainedByTrimRight(t, u) =>
              SourcePosition(TrimRightList(clips, t), u) = SourcePosition(clips, u)

\* ---- C32 ---------------------------------------------------------------
\* The log holds the same move (same track, same clip, same requested start)
\* at i and right after it at i + 1.
SameMoveTwice(i) ==
    /\ i + 1 \in DOMAIN log
    /\ log[i].op \in MoveOps
    /\ log[i + 1].op = log[i].op
    /\ log[i + 1].id = log[i].id
    /\ log[i + 1].arg = log[i].arg

\* C32: a move applied twice in a row with the same clip and the same start
\* leaves the track (every clip's start) as the first application left it,
\* and so does a further application on the track as it is now.
C32_MoveIsIdempotent ==
    /\ \A i \in DOMAIN log : SameMoveTwice(i) => TrackAfter(i + 1) = TrackAfter(i)
    /\ \A s \in MoveTargets :
          /\ \A id \in Ids(clips) :
                MoveClip(MoveClip(clips, id, s), id, s) = MoveClip(clips, id, s)
          /\ \A id \in Ids(audioClips) :
                MoveClip(MoveClip(audioClips, id, s), id, s) = MoveClip(audioClips, id, s)

\* ---- C33 ---------------------------------------------------------------
\* Playhead positions a seek can ask for around the clips' edge margins: the
\* probe times, and the times one epsilon inside each clip's start and end.
MarginTimes ==
    ProbeTimes \cup UNION {{c.start + epsilon, c.start + epsilon + 1,
                            ClipEnd(c) - epsilon - 1, ClipEnd(c) - epsilon} :
                              c \in Range(clips) \cup Range(audioClips)}

\* The clips of s that handleDeleteAtPlayhead removes at t.
Deleted(s, t) == {i \in DOMAIN s : DeleteHit(s[i], t)}

\* C33: at any playhead time t, deleteAtPlayhead removes exactly the clips
\* that splitAtPlayhead splits and the trims trim (those holding t strictly
\* within the 0.01 s margin), so the Delete control (canDeleteAtPlayhead) is
\* enabled exactly when the delete would remove at least one clip.
C33_DeleteHitsWhatSplitHits ==
    \A t \in MarginTimes :
        /\ Deleted(clips, t) = Hits(clips, t)
        /\ Deleted(audioClips, t) = Hits(audioClips, t)
        /\ canSplitAtPlayhead(clips, audioClips, t)
              <=> (Len(DeleteList(clips, t)) + Len(DeleteList(audioClips, t))
                      < Len(clips) + Len(audioClips))

\* ---- C34 ---------------------------------------------------------------
\* The video track the AI action remove_clip on clip id leaves.
AfterAIRemove(id) == applyAIAction(RemoveAction(id), videoState, clips, nextId).updatedClips

\* C34: the AI action remove_clip removes the targeted clip and leaves every
\* surviving clip's start as it was (the gap is not closed), as the delete at
\* the playhead does.
C34_AIRemoveLeavesSurvivors ==
    \A id \in Ids(clips) :
        /\ id \notin Ids(AfterAIRemove(id))
        /\ \A c \in Range(clips) :
              c.id # id => /\ c.id \in Ids(AfterAIRemove(id))
                           /\ ById(AfterAIRemove(id), c.id).start = c.start

\* ---- C35 ---------------------------------------------------------------
\* The named filter vocabulary (FilterType).
NamedFilters ==
    {"none", "grayscale", "sepia", "vintage", "cyberpunk", "warm", "invert", "blur",
     "dramatic", "noir", "technicolor"}

\* The clip the player is mounted on, None when the playhead is on no clip.
Shown == ActiveClipAt(clips, videoState.currentTime)

\* C35: when the effective filter of the clip on screen (its own filter if it
\* has one, the global filter otherwise) is not a named preset, the filter
\* chain of the player holds that string verbatim together with the global
\* brightness, contrast and saturation terms.
C35_CustomFilterPassesThrough ==
    (Shown # None /\ ActiveFilter(videoState, Shown.filter) \notin NamedFilters)
    => LET terms == Range(FilterTerms(videoState, Shown.filter))
       IN  /\ ActiveFilter(videoState, Shown.filter) \in terms
           /\ Percent("brightness", videoState.brightness) \in terms
           /\ Percent("contrast", videoState.contrast) \in terms
           /\ Percent("saturate", videoState.saturation) \in terms

\* ---- C36 ---------------------------------------------------------------
\* C36: the global fades lower the opacity of the clip on screen only in the
\* first fadeIn seconds of the timeline and in the last fadeOut seconds before
\* its total duration; anywhere else, clip boundaries inside the timeline
\* included, they leave it at 1.
C36_GlobalFadesOnlyAtTimelineEnds ==
    LET t == videoState.currentTime
        fade == GlobalFade(videoState, t, Shown.start, Shown.duration)
    IN  (Shown # None /\ fade.num < fade.den)
        => \/ videoState.fadeIn > 0 /\ t < videoState.fadeIn
           \/ videoState.fadeOut > 0 /\ t > videoState.duration - videoState.fadeOut

\* ---- C37 ---------------------------------------------------------------
\* States an <audio> element of clip can be in when a pass meets it: at and
\* next to both tolerances around the target and around zero, playing or paused.
Followers(clip) ==
    {[currentTime |-> p, paused |-> b] :
        p \in {q \in {0, RESET_TOLERANCE, RESET_TOLERANCE + 1, clip.duration}
                     \cup {TargetTime(clip, videoState) + d :
                              d \in {-DRIFT_TOLERANCE - 1, -DRIFT_TOLERANCE, 0,
                                      DRIFT_TOLERANCE, DRIFT_TOLERANCE + 1}} : q >= 0},
        b \in BOOLEAN}

\* C37: a pass of the audio sync sets the follower of a clip active at
\* currentTime to the target (currentTime - clip.start) + clip.offset exactly
\* when it is more than 0.15 s from the target and leaves it alone otherwise;
\* the follower of a clip not active at currentTime is paused and is reset to
\* zero exactly when its position is more than 0.05 s from zero.
C37_AudioSyncWithinTolerance ==
    \A i \in DOMAIN audioClips : \A el \in Followers(audioClips[i]) :
        LET clip == audioClips[i]
            t == videoState.currentTime
            target == (t - clip.start) + clip.offset
            after == SyncFollower(clip, videoState, el)
        IN  IF clip.start <= t /\ t < clip.start + clip.duration
            THEN /\ (el.currentTime - target > DRIFT_TOLERANCE
                       \/ target - el.currentTime > DRIFT_TOLERANCE)
                      => after.currentTime = target
                 /\ (el.currentTime - target <= DRIFT_TOLERANCE
                       /\ target - el.currentTime <= DRIFT_TOLERANCE)
                      => after.currentTime = el.currentTime
            ELSE /\ after.paused
                 /\ after.currentTime = IF el.currentTime > RESET_TOLERANCE
                                        THEN 0 ELSE el.currentTime

\* After a seek the playhead is inside one audio clip, whose follower is
\* corrected when off by more than the tolerance and left alone when off by
\* less, and outside another, whose follower was playing away from zero and
\* is paused and reset.
C37_Witness ==
    /\ log # <<>> /\ log[Len(log)].op = "seek"
    /\ \E i \in DOMAIN audioClips : \E el \in Followers(audioClips[i]) :
          /\ IsActive(audioClips[i], videoState)
          /\ TargetTime(audioClips[i], videoState) > 0
          /\ SyncFollower(audioClips[i], videoState, el).currentTime # el.currentTime
    /\ \E i \in DOMAIN audioClips : \E el \in Followers(audioClips[i]) :
          /\ IsActive(audioClips[i], videoState)
          /\ el.currentTime # TargetTime(audioClips[i], videoState)
          /\ SyncFollower(audioClips[i], videoState, el).currentTime = el.currentTime
    /\ \E i \in DOMAIN audioClips : \E el \in Followers(audioClips[i]) :
          /\ ~IsActive(audioClips[i], videoState)
          /\ ~el.paused /\ el.currentTime > RESET_TOLERANCE
          /\ SyncFollower(audioClips[i], videoState, el) = [currentTime |-> 0, paused |-> TRUE]

\* ---- C38 ---------------------------------------------------------------
\* The import finished at log entry j was of a file whose probe failed and
\* whose upload succeeded.
FailedProbeImport(j) ==
    /\ log[j].op = "importFinish" /\ log[j].arg = 1
    /\ \E i \in 1..(j - 1) :
          log[i].op = "importStart" /\ log[i].id = log[j].id /\ log[i].arg = ProbeError

\* The clip with this id is on the video track with the 5 s fallback or on
\* the audio track with the 3 s fallback.
HasFallbackDuration(video, audio, id) ==
    \/ id \in Ids(video) /\ ById(video, id).duration = VIDEO_FALLBACK
    \/ id \in Ids(audio) /\ ById(audio, id).duration = AUDIO_FALLBACK

\* C38: every import that starts completes, with isLoadingMedia back to false,
\* whether its upload or its probe fails or not; and a file whose probe failed
\* is inserted with the fallback duration, 5 s on the video track (videos and
\* images) and 3 s on the audio track.
C38_ImportAlwaysCompletes ==
    /\ isLoadingMedia ~> ~isLoadingMedia
    /\ [](\A j \in DOMAIN log :
            FailedProbeImport(j)
            => HasFallbackDuration(VideoAfter(j), AudioAfter(j), log[j].id))

\* An import whose probe failed has completed: isLoadingMedia is false again
\* and the file's clip is on a track.
C38_Witness ==
    /\ ~isLoadingMedia
    /\ \E j \in DOMAIN log : FailedProbeImport(j) /\ log[j].id \in Ids(clips) \cup Ids(audioClips)
=============================================================================
